---------------------------- MODULE Spec2Model ----------------------------
(***************************************************************************)
(* Model of the wellness tracker: the CSV record store                     *)
(* (WellnessDataHandler), the Streamlit script runs of WellnessApp and the *)
(* field coercion cast_initial_value.                                      *)
(*                                                                         *)
(* Dates are proleptic Gregorian ordinals (datetime.date.toordinal); the   *)
(* "%Y-%m-%d" text of a date is its canonical image, so two day strings    *)
(* are equal exactly when their ordinals are.                              *)
(***************************************************************************)
EXTENDS Integers, Sequences, FiniteSets, TLC

VARIABLES
    disk,        \* the CSV file of the handler (filename): its text table
    call,        \* the handler call made last: [op, day, updates]
    ret,         \* the dict returned by the last get_for_date call
    today,       \* the wall-clock date (dt.datetime.now()), as an ordinal
    ss,          \* st.session_state: a map from the keys set so far to ordinals
    sel_period,  \* st.session_state["<stat>_selected_period"], "unset" when absent
    pc,          \* per writer: position inside upsert_for_date
    snap,        \* per writer: the frame its load_data returned, and its df
    args,        \* per writer: the (day_str, updates) of its call
    log,         \* the load_data and save_data calls of the writers, in order
    fld,         \* cast_initial_value: the schema entry of the call
    stored,      \* cast_initial_value: the stored raw value of the call
    out,         \* cast_initial_value: what the call returned or raised
    at,          \* cast_initial_value: the wall-clock time of the call
    memo,        \* cast_initial_value: an earlier call, kept for comparison
    cfg,         \* the schema entries of the loaded configuration (dicts)
    clock,       \* the wall-clock time of day (datetime.now().time())
    entry,       \* the dict get_activity_score and get_subjective_average get
    score,       \* what the two return for entry
    tbl,         \* the table (df) a chart function is called with
    req,         \* the chart call: function, column, period and anchors
    fig          \* the figure the chart call returned, or what it raised

storeVars == <<disk, call, ret>>
appVars   == <<today, ss, sel_period>>
raceVars  == <<pc, snap, args, log>>
castVars  == <<fld, stored, out, at, memo, cfg, clock>>
statVars  == <<entry, score, tbl, req, fig>>
vars == <<disk, call, ret, today, ss, sel_period,
          pc, snap, args, log, fld, stored, out, at, memo, cfg, clock,
          entry, score, tbl, req, fig>>

---------------------------------------------------------------------------
(* Python values.  Every value is a record of one shape so that values of  *)
(* different Python types can be compared: t is the type, and b, n, s hold *)
(* the payload of a bool, a number and a string.  A float is kept in       *)
(* halves (n = 15 is 7.5); inf and nan are float('inf') and float('nan').  *)

PyNone     == [t |-> "none",  b |-> FALSE, n |-> 0, s |-> ""]
PyNaN      == [t |-> "nan",   b |-> FALSE, n |-> 0, s |-> ""]
PyInf      == [t |-> "inf",   b |-> FALSE, n |-> 0, s |-> ""]
\* float("-inf")
PyNegInf   == [t |-> "-inf",  b |-> FALSE, n |-> 0, s |-> ""]
PyBool(x)  == [t |-> "bool",  b |-> x,     n |-> 0, s |-> ""]
PyInt(x)   == [t |-> "int",   b |-> FALSE, n |-> x, s |-> ""]
PyFloat(h) == [t |-> "float", b |-> FALSE, n |-> h, s |-> ""]
PyStr(x)   == [t |-> "str",   b |-> FALSE, n |-> 0, s |-> x]
PyDate(d)  == [t |-> "date",  b |-> FALSE, n |-> d, s |-> ""]
PyTime(x)  == [t |-> "time",  b |-> FALSE, n |-> x, s |-> ""]
PyRaise(e) == [t |-> "raise", b |-> FALSE, n |-> 0, s |-> e]
\* the text of an empty CSV cell
CsvEmpty   == [t |-> "empty", b |-> FALSE, n |-> 0, s |-> ""]


---------------------------------------------------------------------------
(* Bounds and the inputs of the store.                                     *)

\* toordinal() of 2024-12-30, a Monday: the first day the model uses
Today0 == 739250
\* number of distinct days the handler is called with
NumDays == 2
Days == Today0 .. (Today0 + NumDays - 1)

\* Columns a block of the form writes: a checkbox and a text field.
Fields == {"gym", "notes"}
\* The values the widget of a field can return (render_field).
WidgetValues(k) ==
    IF k = "gym" THEN {PyBool(TRUE), PyBool(FALSE)}
                 ELSE {PyStr(""), PyStr("ok")}
\* Every dict that maps some of the fields to a widget value.
FieldMaps(K) == UNION {
    {u \in [S -> UNION {WidgetValues(k) : k \in S}] :
        \A k \in S : u[k] \in WidgetValues(k)} : S \in SUBSET K}

EmptyDict == [k \in {} |-> PyNone]
Min(S) == CHOOSE x \in S : \A y \in S : x <= y

---------------------------------------------------------------------------
(* WellnessDataHandler.  A table is [cols, rows]: cols the field columns   *)
(* besides date and timestamp, rows a sequence of [date, timestamp, f].    *)

\* pd.DataFrame(): no columns, no rows
EmptyFrame == [datecol |-> FALSE, cols |-> {}, rows |-> << >>]
\* The data file of the script runs of one session, written by one
\* save_data at a time from its open to its close: the table of the frame
\* last saved, column by column.  LoadText and to_csv below are the same
\* reading and writing on the bytes of a file, which the saves of several
\* sessions can mix.
\* the state of the data file before the first save_data
NoFile == [exists |-> FALSE, cols |-> {}, rows |-> << >>]

\* How DataFrame.to_csv writes a cell: a missing value (None, NaN) and the
\* empty string are both written as empty text.
to_csv_cell(v) ==
    IF v.t \in {"none", "nan"} \/ v = PyStr("") THEN CsvEmpty ELSE v
\* Strings pd.read_csv reads as missing (its default na_values).
NaStrings == {"", "#N/A", "#N/A N/A", "#NA", "-1.#IND", "-1.#QNAN", "-NaN",
              "-nan", "1.#IND", "1.#QNAN", "<NA>", "N/A", "NA", "NULL", "NaN",
              "None", "n/a", "nan", "null"}
\* How pd.read_csv reads a cell back: empty text and NA markers are NaN.
read_csv_cell(c) ==
    IF c = CsvEmpty \/ (c.t = "str" /\ c.s \in NaStrings) THEN PyNaN ELSE c

\* pd.read_csv over the rows of the file
ReadRows(rows) ==
    [i \in 1..Len(rows) |->
        [date |-> rows[i].date, timestamp |-> rows[i].timestamp,
         f |-> [k \in Fields |-> read_csv_cell(rows[i].f[k])]]]

\* df.to_csv over the rows of the frame
WriteRows(rows) ==
    [i \in 1..Len(rows) |->
        [date |-> rows[i].date, timestamp |-> rows[i].timestamp,
         f |-> [k \in Fields |-> to_csv_cell(rows[i].f[k])]]]

load_data(file) ==
    IF ~file.exists THEN EmptyFrame
    ELSE [datecol |-> TRUE, cols |-> file.cols, rows |-> ReadRows(file.rows)]

save_data(df) ==
    [exists |-> TRUE, cols |-> df.cols,
     rows |-> WriteRows(df.rows)]

\* A frame without a date column gets one, filled from the timestamp column
\* (the frame of a missing file has no row to fill).
ensure_date_column(df) ==
    IF df.datecol THEN df
    ELSE [datecol |-> TRUE, cols |-> df.cols,
          rows |-> [i \in 1..Len(df.rows) |->
                      [df.rows[i] EXCEPT !.date = df.rows[i].timestamp]]]

\* Mutant of DateMask: the date column compared with the parsed datetime
\* instead of the day string, which no row matches.
DateMask_NoMatch(df, day_str) == {}

\* df["date"] == day_str
DateMask(df, day_str) ==
    {i \in 1..Len(df.rows) : df.rows[i].date = PyDate(day_str)}

\* the row of the new-record branch: date, timestamp, then the updates
NewRow(day_str, updates) ==
    [date |-> PyDate(day_str), timestamp |-> PyDate(day_str),
     f |-> [k \in Fields |->
              IF k \in DOMAIN updates THEN updates[k] ELSE PyNaN]]

\* Mutant of SetRow: the record is replaced by a fresh row of the updates.
SetRow_Replace(row, day_str, updates) == NewRow(day_str, updates)

\* the existing-record branch: df.loc[idx, k] = v for every update
SetRow(row, day_str, updates) ==
    [date |-> row.date, timestamp |-> PyDate(day_str),
     f |-> [k \in Fields |->
              IF k \in DOMAIN updates THEN updates[k] ELSE row.f[k]]]

\* the body of upsert_for_date between load_data and save_data
UpsertFrame(df0, day_str, updates) ==
    LET df   == ensure_date_column(df0)
        mask == DateMask(df, day_str)
    IN  IF mask = {}
        THEN [datecol |-> TRUE, cols |-> df.cols \cup DOMAIN updates,
              rows |-> Append(df.rows, NewRow(day_str, updates))]
        ELSE LET idx == Min(mask)
             IN  [datecol |-> TRUE, cols |-> df.cols \cup DOMAIN updates,
                  rows |-> [df.rows EXCEPT
                              ![idx] = SetRow(df.rows[idx], day_str, updates)]]

upsert_for_date(file, day_str, updates) ==
    save_data(UpsertFrame(load_data(file), day_str, updates))

\* row.iloc[0].to_dict(): every column of the table is a key
RowDict(df, row) ==
    [k \in {"date", "timestamp"} \cup df.cols |->
        IF k = "date" THEN row.date
        ELSE IF k = "timestamp" THEN row.timestamp
        ELSE row.f[k]]

\* Mutant of get_for_date: iloc[0] taken of the whole table.
get_for_date_First(file, day_str) ==
    LET df == load_data(file)
    IN  IF df.rows = << >> THEN EmptyDict
        ELSE RowDict(df, df.rows[1])

get_for_date(file, day_str) ==
    LET df == load_data(file)
    IN  IF df.rows = << >> THEN EmptyDict
        ELSE LET mask == DateMask(ensure_date_column(df), day_str)
             IN  IF mask = {} THEN EmptyDict
                 ELSE RowDict(df, df.rows[Min(mask)])

---------------------------------------------------------------------------
(* The parts of the state a specification does not use stay as they start. *)

AppIdle ==
    /\ today = Today0
    /\ ss = [k \in {} |-> 0]
    /\ sel_period = "unset"

RaceIdle ==
    /\ pc = << >>
    /\ snap = << >>
    /\ args = << >>
    /\ log = << >>

\* no schema entry: cast_initial_value has not been called
NoField == [type |-> "none", subtype |-> "float", default |-> PyNone,
            min |-> PyNone, options |-> << >>]

\* no earlier call is kept
NoMemo == [fld |-> NoField, stored |-> PyNone, out |-> PyNone, at |-> 0,
           between |-> FALSE, last |-> NoField]
\* no configuration is loaded
NoConfig == << >>

CastIdle ==
    /\ fld = NoField
    /\ stored = PyNone
    /\ out = PyNone
    /\ at = 0
    /\ memo = NoMemo
    /\ cfg = NoConfig
    /\ clock = 0

\* the score and the average are not computed yet
NoScore == [done |-> FALSE, activity |-> PyNone, average |-> PyNone]

\* pd.DataFrame(): a table without columns and rows
NoTable == [date_col |-> FALSE, cols |-> {}, rows |-> << >>]
\* no chart function has been called
NoRequest == [fn |-> "none", column |-> "", period |-> "month",
              year |-> 0, month |-> 0, week_start |-> 0]
NoFigure == [kind |-> "none", label |-> "", measured |-> << >>,
             line |-> << >>, cells |-> << >>]

StatIdle ==
    /\ entry = EmptyDict
    /\ score = NoScore
    /\ tbl = NoTable
    /\ req = NoRequest
    /\ fig = NoFigure

---------------------------------------------------------------------------
(* The handler driven by arbitrary calls.                                  *)

\* call.after says, for a get, that the call before it was an upsert for the
\* same day, and call.updates then keeps the updates of that upsert.
NoCall == [op |-> "none", day |-> Today0, updates |-> EmptyDict,
           after |-> FALSE]

CallUpsert ==
    \E d \in Days : \E u \in FieldMaps(Fields) :
        /\ disk' = upsert_for_date(disk, d, u)
        /\ call' = [op |-> "upsert", day |-> d, updates |-> u,
                    after |-> FALSE]
        /\ ret' = EmptyDict
        /\ UNCHANGED <<appVars, raceVars, castVars, statVars>>

CallGet ==
    \E d \in Days :
        /\ ret' = get_for_date(disk, d)
        /\ call' = IF call.op = "upsert" /\ call.day = d
                   THEN [op |-> "get", day |-> d, updates |-> call.updates,
                         after |-> TRUE]
                   ELSE [op |-> "get", day |-> d, updates |-> EmptyDict,
                         after |-> FALSE]
        /\ disk' = disk
        /\ UNCHANGED <<appVars, raceVars, castVars, statVars>>

StoreInit ==
    /\ disk = NoFile
    /\ call = NoCall
    /\ ret = EmptyDict

StoreNext == CallUpsert \/ CallGet

StoreIdle == StoreInit

StoreSpecInit == StoreInit /\ AppIdle /\ RaceIdle /\ CastIdle /\ StatIdle

StoreSpec == StoreSpecInit /\ [][StoreNext]_vars

---------------------------------------------------------------------------
(* Claims about the record store.                                          *)

\* the rows of the file that hold day d
RowsOf(file, d) == {i \in 1..Len(file.rows) : file.rows[i].date = PyDate(d)}
HasRecord(file, d) == RowsOf(file, d) # {}
UniqueDates(file) ==
    \A i, j \in 1..Len(file.rows) :
        file.rows[i].date = file.rows[j].date => i = j

\* C1: starting from an empty store, after any sequence of upsert_for_date
\* calls the table holds at most one record per date, and an upsert for a
\* date that already has a record adds no row.
C1_OneRecordPerDate ==
    /\ [](UniqueDates(disk))
    /\ [][(call'.op = "upsert" /\ HasRecord(disk, call'.day))
            => Len(disk'.rows) = Len(disk.rows)]_vars

\* an upsert has just overwritten a record an earlier upsert created: a field
\* the last call did not name still holds a value
C1_Witness ==
    /\ call.op = "upsert"
    /\ \E i \in RowsOf(disk, call.day) :
         \E k \in Fields \ DOMAIN call.updates : disk.rows[i].f[k] # CsvEmpty

\* C2: upsert_for_date(d, updates) on a store holding a record for d
\* overwrites on that record exactly the fields named in updates (and its
\* timestamp), leaves its other fields and every other record unchanged;
\* when d has no record it appends exactly one record for d and changes no
\* existing record.
UpsertFrameEffect(old, new, d, u) ==
    IF HasRecord(old, d)
    THEN /\ Len(new.rows) = Len(old.rows)
         /\ \A i \in 1..Len(old.rows) :
              IF old.rows[i].date # PyDate(d)
              THEN new.rows[i] = old.rows[i]
              ELSE /\ new.rows[i].date = PyDate(d)
                   /\ \A k \in Fields \ DOMAIN u :
                        new.rows[i].f[k] = old.rows[i].f[k]
                   /\ \A k \in DOMAIN u :
                        new.rows[i].f[k] = to_csv_cell(u[k])
    ELSE /\ Len(new.rows) = Len(old.rows) + 1
         /\ \A i \in 1..Len(old.rows) : new.rows[i] = old.rows[i]
         /\ new.rows[Len(new.rows)].date = PyDate(d)

C2_UpsertFrame ==
    [][call'.op = "upsert"
         => UpsertFrameEffect(disk, disk', call'.day, call'.updates)]_vars

\* an upsert has changed one field of a record and kept another, while a
\* record of another date is in the table
C2_Witness ==
    /\ call.op = "upsert"
    /\ Len(disk.rows) >= 2
    /\ \E i \in RowsOf(disk, call.day) :
         /\ DOMAIN call.updates # {}
         /\ \E k \in Fields \ DOMAIN call.updates : disk.rows[i].f[k] # CsvEmpty

\* C3: get_for_date(d) returns the empty map when the store has no record
\* for d, and right after upsert_for_date(d, updates) it returns a map whose
\* date is d and whose value for every key of updates is the value given.
C3_GetReturnsGiven ==
    call.op = "get" =>
        /\ ~HasRecord(disk, call.day) => ret = EmptyDict
        /\ call.after =>
             /\ "date" \in DOMAIN ret /\ ret["date"] = PyDate(call.day)
             /\ \A k \in DOMAIN call.updates :
                  k \in DOMAIN ret /\ ret[k] = call.updates[k]

\* what get_for_date returns instead for the values a checkbox and a text
\* field give: the value given, but NaN where the text given is empty
GetReturnsStored ==
    call.op = "get" =>
        /\ ~HasRecord(disk, call.day) => ret = EmptyDict
        /\ call.after =>
             /\ "date" \in DOMAIN ret /\ ret["date"] = PyDate(call.day)
             /\ \A k \in DOMAIN call.updates :
                  /\ k \in DOMAIN ret
                  /\ ret[k] = IF call.updates[k] = PyStr("")
                              THEN PyNaN ELSE call.updates[k]

\* a get right after an upsert of the same day, in a table that also holds
\* another day, has returned a checkbox as given and an empty text as NaN
EmptyTextLost ==
    /\ call.op = "get" /\ call.after
    /\ Len(disk.rows) >= 2
    /\ DOMAIN call.updates = {"gym", "notes"}
    /\ call.updates["notes"] = PyStr("") /\ ret["notes"] = PyNaN
    /\ ret["gym"] = PyBool(TRUE)

---------------------------------------------------------------------------
(* Calendar arithmetic of datetime.date on ordinals.                       *)

is_leap(y) == y % 4 = 0 /\ (y % 100 # 0 \/ y % 400 = 0)
DaysInMonthTable == <<31, 28, 31, 30, 31, 30, 31, 31, 30, 31, 30, 31>>
days_in_month(y, m) ==
    IF m = 2 /\ is_leap(y) THEN 29 ELSE DaysInMonthTable[m]
days_before_year(y) ==
    (y - 1) * 365 + ((y - 1) \div 4) - ((y - 1) \div 100) + ((y - 1) \div 400)
RECURSIVE days_before_month(_, _)
days_before_month(y, m) ==
    IF m = 1 THEN 0
    ELSE days_before_month(y, m - 1) + days_in_month(y, m - 1)
\* date(y, m, d).toordinal()
ymd2ord(y, m, d) == days_before_year(y) + days_before_month(y, m) + d

\* date.fromordinal(n), as [year, month, day]
ord2ymd(n) ==
    LET n0   == n - 1
        n400 == n0 \div 146097
        r400 == n0 % 146097
        n100 == r400 \div 36524
        r100 == r400 % 36524
        n4   == r100 \div 1461
        r4   == r100 % 1461
        n1   == r4 \div 365
        r1   == r4 % 365
        year == n400 * 400 + 1 + n100 * 100 + n4 * 4 + n1
    IN  IF n1 = 4 \/ n100 = 4
        THEN [year |-> year - 1, month |-> 12, day |-> 31]
        ELSE LET m == CHOOSE k \in 1..12 :
                        /\ days_before_month(year, k) <= r1
                        /\ r1 < days_before_month(year, k) + days_in_month(year, k)
             IN  [year |-> year, month |-> m,
                  day |-> r1 - days_before_month(year, m) + 1]

\* date.weekday(): Monday is 0
weekday(n) == (n + 6) % 7

---------------------------------------------------------------------------
(* The data file as text.  A file is [exists, lines]: its lines one after  *)
(* the other, a line its cells, a cell its characters; the bytes of the    *)
(* file are the cells of a line joined by commas and every line ended by a *)
(* line feed.  Cells of the model hold no comma, quote or line feed, so    *)
(* to_csv quotes nothing.                                                  *)

\* the characters of the column names and cell texts of the model
Spelling ==
    [date      |-> <<"d", "a", "t", "e">>,
     timestamp |-> <<"t", "i", "m", "e", "s", "t", "a", "m", "p">>,
     gym       |-> <<"g", "y", "m">>,
     notes     |-> <<"n", "o", "t", "e", "s">>,
     ok        |-> <<"o", "k">>,
     late      |-> <<"l", "a", "t", "e">>,
     True      |-> <<"T", "r", "u", "e">>,
     False     |-> <<"F", "a", "l", "s", "e">>]
DigitChars == <<"0", "1", "2", "3", "4", "5", "6", "7", "8", "9">>
Num2(n) == <<DigitChars[(n \div 10) + 1], DigitChars[(n % 10) + 1]>>
\* "%Y-%m-%d" of a date
DateText(d) ==
    LET x == ord2ymd(d)
    IN  Num2(x.year \div 100) \o Num2(x.year % 100) \o <<"-">>
        \o Num2(x.month) \o <<"-">> \o Num2(x.day)
IsDigit(c) == \E i \in 1..10 : DigitChars[i] = c
DigitOf(c) == (CHOOSE i \in 1..10 : DigitChars[i] = c) - 1
\* a text of the form YYYY-MM-DD that names a date
IsDateText(t) ==
    /\ Len(t) = 10 /\ t[5] = "-" /\ t[8] = "-"
    /\ \A i \in {1, 2, 3, 4, 6, 7, 9, 10} : IsDigit(t[i])
    /\ LET y == 1000 * DigitOf(t[1]) + 100 * DigitOf(t[2])
                + 10 * DigitOf(t[3]) + DigitOf(t[4])
           m == 10 * DigitOf(t[6]) + DigitOf(t[7])
           d == 10 * DigitOf(t[9]) + DigitOf(t[10])
       IN  y >= 1 /\ m \in 1..12 /\ d >= 1 /\ d <= days_in_month(y, m)
DateOf(t) ==
    ymd2ord(1000 * DigitOf(t[1]) + 100 * DigitOf(t[2])
                + 10 * DigitOf(t[3]) + DigitOf(t[4]),
            10 * DigitOf(t[6]) + DigitOf(t[7]),
            10 * DigitOf(t[9]) + DigitOf(t[10]))

\* a cell whose text is no date, boolean or text of Spelling: kept as read
TextCell(t) == [t |-> "text", chars |-> t]
\* what to_csv writes for a cell
CellText(v) ==
    IF v.t = "text" THEN v.chars
    ELSE IF to_csv_cell(v) = CsvEmpty THEN << >>
    ELSE IF v.t = "bool" THEN (IF v.b THEN Spelling["True"] ELSE Spelling["False"])
    ELSE IF v.t = "date" THEN DateText(v.n)
    ELSE Spelling[v.s]
\* a text read_csv takes for a boolean (its true and false values)
IsBoolText(t) == t = Spelling["True"] \/ t = Spelling["False"]
\* How read_csv types a column from the texts of its cells, the empty ones
\* left out: a column whose texts are all True or False is a column of
\* booleans (of booleans and NaN when a cell is empty); any other text makes
\* it a column of strings, in which True and False stay text.  No column of
\* a file of the model holds a number (NoNumberColumn).
ColumnKind(texts) ==
    IF texts # {} /\ \A t \in texts : IsBoolText(t) THEN "bool" ELSE "str"
\* what read_csv reads from a cell of a column of that kind; the string of
\* a day is the date value of the record store
CellValue(t, kind) ==
    IF t = << >> THEN PyNaN
    ELSE IF kind = "bool" THEN PyBool(t = Spelling["True"])
    ELSE IF IsDateText(t) THEN PyDate(DateOf(t))
    ELSE IF \E s \in DOMAIN Spelling : Spelling[s] = t
    THEN PyStr(CHOOSE s \in DOMAIN Spelling : Spelling[s] = t)
    ELSE TextCell(t)

\* the bytes of a line and of a file
RECURSIVE JoinCells(_)
JoinCells(line) ==
    IF Len(line) = 1 THEN line[1]
    ELSE line[1] \o <<",">> \o JoinCells(Tail(line))
RECURSIVE Bytes(_)
Bytes(lines) ==
    IF lines = << >> THEN << >>
    ELSE JoinCells(lines[1]) \o <<"\n">> \o Bytes(Tail(lines))
\* a text cut at every sep
RECURSIVE SplitOn(_, _)
SplitOn(t, sep) ==
    IF \A i \in 1..Len(t) : t[i] # sep THEN <<t>>
    ELSE LET i == CHOOSE k \in 1..Len(t) :
                     t[k] = sep /\ \A j \in 1..(k - 1) : t[j] # sep
         IN  <<SubSeq(t, 1, i - 1)>> \o SplitOn(SubSeq(t, i + 1, Len(t)), sep)
\* the lines of a text and their cells
SplitLines(t) ==
    LET p == SplitOn(t, "\n")
        n == IF p[Len(p)] = << >> THEN Len(p) - 1 ELSE Len(p)
    IN  [i \in 1..n |-> SplitOn(p[i], ",")]

\* no file yet
NoText == [exists |-> FALSE, lines |-> << >>]
\* open(filename, "w"): the file exists and has zero bytes
EmptyFile == [exists |-> TRUE, lines |-> << >>]

\* the columns of a new frame come in this order (the keys of updates)
FieldOrder == <<"gym", "notes">>
InSeq(x, s) == \E i \in 1..Len(s) : s[i] = x
\* df.to_csv(index=False): the header, then a line per row; the columns are
\* date, timestamp, the field columns of the file read in their order, then
\* the columns the updates added
to_csv(order, df) ==
    LET cols == order \o SelectSeq(FieldOrder,
                            LAMBDA k : k \in df.cols /\ ~InSeq(k, order))
    IN  <<<<Spelling["date"], Spelling["timestamp"]>>
            \o [j \in 1..Len(cols) |-> Spelling[cols[j]]]>>
        \o [i \in 1..Len(df.rows) |->
              <<CellText(df.rows[i].date), CellText(df.rows[i].timestamp)>>
              \o [j \in 1..Len(cols) |-> CellText(df.rows[i].f[cols[j]])]]

\* read_csv skips the lines without a character
NonBlank(lines) == SelectSeq(lines, LAMBDA l : l # << << >> >>)
\* the position of a column in the header, 0 when it has none
ColumnAt(header, name) ==
    IF \E p \in 1..Len(header) : header[p] = Spelling[name]
    THEN CHOOSE p \in 1..Len(header) :
            header[p] = Spelling[name]
            /\ \A q \in 1..(p - 1) : header[q] # Spelling[name]
    ELSE 0
\* load_data raises: read_csv finds no line (EmptyDataError) or a line with
\* more cells than the header (ParserError), or to_datetime finds a
\* timestamp cell that is no date (line 29).  The text of a file starts
\* with what one save wrote, so its header and its first row are whole.
ReadFails(file) ==
    /\ file.exists
    /\ LET ls == NonBlank(file.lines)
       IN  \/ ls = << >>
           \/ \E i \in 2..Len(ls) : Len(ls[i]) > Len(ls[1])
           \/ LET p == ColumnAt(ls[1], "timestamp")
              IN  /\ p # 0
                  /\ \E i \in 2..Len(ls) :
                       /\ p <= Len(ls[i])
                       /\ ls[i][p] # << >>
                       /\ ~IsDateText(ls[i][p])
\* load_data of a file it can read: the cells of a line are taken by their
\* position under the header, a line with fewer cells is filled with NaN
LoadText(file) ==
    IF ~file.exists THEN EmptyFrame
    ELSE LET ls == NonBlank(file.lines)
             Texts(p) == {ls[i][p] : i \in {j \in 2..Len(ls) : p <= Len(ls[j])}}
                            \ {<< >>}
             Cell(row, name) ==
                 LET p == ColumnAt(ls[1], name)
                 IN  IF p = 0 \/ p > Len(row) THEN PyNaN
                     ELSE CellValue(row[p], ColumnKind(Texts(p)))
         IN  [datecol |-> ColumnAt(ls[1], "date") # 0,
              cols |-> {k \in Fields : ColumnAt(ls[1], k) # 0},
              rows |-> [i \in 1..(Len(ls) - 1) |->
                          [date |-> Cell(ls[i + 1], "date"),
                           timestamp |-> Cell(ls[i + 1], "timestamp"),
                           f |-> [k \in Fields |-> Cell(ls[i + 1], k)]]]]
\* the field columns of the file in the order of its header
HeaderOrder(file) ==
    IF ~file.exists \/ NonBlank(file.lines) = << >> THEN << >>
    ELSE LET h == NonBlank(file.lines)[1]
             names == [p \in 1..Len(h) |->
                      IF \E k \in Fields : Spelling[k] = h[p]
                      THEN CHOOSE k \in Fields : Spelling[k] = h[p]
                      ELSE ""]
         IN  SelectSeq(names, LAMBDA k : k # "")

\* the handle is closed: the text of the save goes to the start of the
\* file, over what is there, and what the file holds after it stays
Overlay(file, lines) ==
    LET old == Bytes(file.lines)
        new == Bytes(lines)
    IN  [exists |-> TRUE,
         lines |-> IF Len(old) <= Len(new) THEN lines
                   ELSE lines \o SplitLines(SubSeq(old, Len(new) + 1, Len(old)))]

\* upsert_for_date run from its start to its end with no other writer
UpsertText(file, day_str, updates) ==
    Overlay(EmptyFile,
            to_csv(HeaderOrder(file),
                   UpsertFrame(LoadText(file), day_str, updates)))

---------------------------------------------------------------------------
(* Concurrent writers: each Streamlit session runs the script in a thread  *)
(* of its own, and every writer runs upsert_for_date once: load_data, the  *)
(* change of its own frame, save_data.  Nothing locks the file, and        *)
(* save_data is not one step: to_csv opens the file for writing, which     *)
(* empties it, collects its text in the buffer of the handle and writes it *)
(* when the handle is closed (the tables of the model are far below the    *)
(* size of the buffer), each writer at the start of the file.  Another     *)
(* thread can run between the two.                                         *)

NumWriters == 3
Writers == 1..NumWriters

\* the calls the writers make: one field saved for one day
RaceUpdates == {[k \in {"gym"} |-> PyBool(TRUE)], [k \in {"notes"} |-> PyStr("ok")]}
\* the files a race can start from: none yet, one record saved, or a
\* record saved for each of the first two days
RaceFiles == {NoText,
              UpsertText(NoText, Today0, [k \in {"gym"} |-> PyBool(FALSE)]),
              UpsertText(
                  UpsertText(NoText, Today0 + 1,
                             [k \in {"notes"} |-> PyStr("late")]),
                  Today0, [k \in {"gym"} |-> PyBool(FALSE)])}

NoSnap == [loaded |-> EmptyFrame, df |-> EmptyFrame, order |-> << >>]

RaceInit ==
    /\ disk \in RaceFiles
    /\ call = NoCall
    /\ ret = EmptyDict
    /\ pc = [w \in Writers |-> "start"]
    /\ snap = [w \in Writers |-> NoSnap]
    /\ args = [w \in Writers |-> [day |-> Today0, updates |-> EmptyDict]]
    /\ log = << >>

\* line 46: df = self.load_data().  When read_csv or to_datetime raises,
\* the call ends without a save.
WriterLoad(w) ==
    /\ pc[w] = "start"
    /\ \E d \in Days : \E u \in RaceUpdates :
         args' = [args EXCEPT ![w] = [day |-> d, updates |-> u]]
    /\ IF ReadFails(disk)
       THEN /\ pc' = [pc EXCEPT ![w] = "raised"]
            /\ snap' = snap
       ELSE /\ pc' = [pc EXCEPT ![w] = "loaded"]
            /\ snap' = [snap EXCEPT ![w] = [loaded |-> LoadText(disk),
                                            df |-> LoadText(disk),
                                            order |-> HeaderOrder(disk)]]
    /\ log' = Append(log, [w |-> w, ev |-> "load"])
    /\ UNCHANGED <<disk, call, ret, appVars, castVars, statVars>>

\* lines 47-60: the writer changes its own frame
WriterMutate(w) ==
    /\ pc[w] = "loaded"
    /\ snap' = [snap EXCEPT ![w].df =
                  UpsertFrame(snap[w].df, args[w].day, args[w].updates)]
    /\ pc' = [pc EXCEPT ![w] = "mutated"]
    /\ UNCHANGED <<disk, call, ret, args, log, appVars, castVars, statVars>>

\* line 62, save_data line 35: to_csv opens the file with mode "w", which
\* cuts it to zero bytes
WriterOpen(w) ==
    /\ pc[w] = "mutated"
    /\ disk' = EmptyFile
    /\ pc' = [pc EXCEPT ![w] = "writing"]
    /\ log' = Append(log, [w |-> w, ev |-> "save"])
    /\ UNCHANGED <<call, ret, snap, args, appVars, castVars, statVars>>

\* save_data line 35: to_csv closes the handle, the text reaches the file,
\* and upsert_for_date returns
WriterClose(w) ==
    /\ pc[w] = "writing"
    /\ disk' = Overlay(disk, to_csv(snap[w].order, snap[w].df))
    /\ pc' = [pc EXCEPT ![w] = "done"]
    /\ log' = Append(log, [w |-> w, ev |-> "close"])
    /\ UNCHANGED <<call, ret, snap, args, appVars, castVars, statVars>>

RaceNext ==
    \E w \in Writers :
        WriterLoad(w) \/ WriterMutate(w) \/ WriterOpen(w) \/ WriterClose(w)

RaceSpecInit == RaceInit /\ AppIdle /\ CastIdle /\ StatIdle

RaceSpec == RaceSpecInit /\ [][RaceNext]_vars

AllDone == \A w \in Writers : pc[w] = "done"
\* every writer loaded before any writer began to save
AllLoadFirst ==
    \A i, j \in 1..Len(log) :
        (log[i].ev = "save" /\ log[j].ev = "load") => j < i
\* the writer whose save_data returned last
LastSaver == log[Len(log)].w
\* the text the writer saves
SavedText(w) == to_csv(snap[w].order, snap[w].df)
\* no save_data so far ran while another writer loaded or saved: in the log
\* every save is followed at once by its own end
SavesApart ==
    \A i \in 1..Len(log) :
        log[i].ev = "save" =>
            (i < Len(log) => (log[i + 1].ev = "close" /\ log[i + 1].w = log[i].w))
\* no save_data is running
NoneWriting == \A w \in Writers : pc[w] # "writing"

\* C5: the store is accessed load-mutate-save without locking and the last
\* writer wins: when the upsert calls interleave so that all load before any
\* saves, the final table is exactly the loaded table with the update of the
\* writer that saved last, whatever the earlier writers saved.
C5_LastWriterWins ==
    (AllDone /\ AllLoadFirst) =>
        /\ \A v, w \in Writers : snap[v].loaded = snap[w].loaded
        /\ NonBlank(disk.lines)
             = to_csv(snap[LastSaver].order,
                      UpsertFrame(snap[LastSaver].loaded, args[LastSaver].day,
                                  args[LastSaver].updates))

\* the last writer wins when no save ran during another: all loaded first,
\* each save_data ran from its open to its close alone, and the file is the
\* text of the writer that saved last
LastWriterWinsApart ==
    (AllDone /\ AllLoadFirst /\ SavesApart) =>
        disk.lines = SavedText(LastSaver)

\* a lost update: all writers loaded the missing file, all saved one after
\* the other, and the day of a writer that did not save last has no record
LostUpdate ==
    /\ AllDone /\ AllLoadFirst /\ SavesApart
    /\ \E w \in Writers :
         /\ w # LastSaver
         /\ \A i \in 1..Len(disk.lines) :
              disk.lines[i][1] # DateText(args[w].day)

\* two saves mixed inside a line: the file held the record of the first
\* day, one writer saved a record for the second day and one a note for the
\* first, and the shorter text of the save closed last lies over the start
\* of the longer: the file reads as a table whose second record has the
\* date 1
MixedRecord ==
    /\ AllDone /\ AllLoadFirst
    /\ disk.lines =
         << <<Spelling["date"], Spelling["timestamp"], Spelling["gym"],
              Spelling["notes"]>>,
            <<DateText(Today0), DateText(Today0), Spelling["False"],
              Spelling["ok"]>>,
            << <<"1">>, DateText(Today0 + 1), Spelling["True"]>> >>
    /\ ~ReadFails(disk)

\* every save has returned and the file cannot be read: a line of one save
\* has more cells than the header of another, and every later load_data
\* raises
UnreadableFile ==
    /\ AllDone
    /\ \E i \in 2..Len(disk.lines) : Len(disk.lines[i]) > Len(disk.lines[1])

---------------------------------------------------------------------------
(* WellnessApp: every action is one run of the Streamlit script, started   *)
(* by the click of one widget (or by none), through the entry tab and then *)
(* the stats tab.                                                          *)

\* how far calendar navigation goes from the first day: years, months and
\* weeks stepped, added up
MaxNav == 1

\* the blocks of the configuration and the fields of each
Blocks == {"body", "mind"}
BlockFields(b) == IF b = "body" THEN {"gym"} ELSE {"notes"}
\* the column of the calendar chart of the configuration
CalendarColumn == "gym"
\* the values the user leaves in the widgets of the form
FormValues(k) == IF k = "gym" THEN {PyBool(TRUE)} ELSE {PyStr("ok")}
\* the dicts of widget values a block can hold: one value per field
BlockValues(b) ==
    {u \in FieldMaps(BlockFields(b)) :
        DOMAIN u = BlockFields(b) /\ \A k \in DOMAIN u : u[k] \in FormValues(k)}

Periods == {"week", "month", "year"}

\* get_entry_day(): today as "%Y-%m-%d"
get_entry_day(now) == now
\* shift_day(day_str, delta)
shift_day(day_str, delta) == day_str + delta

Has(s, k) == k \in DOMAIN s
\* st.session_state[k] = v
Put(s, k, v) == [x \in DOMAIN s \cup {k} |-> IF x = k THEN v ELSE s[x]]

\* render_day_selector: the entry day after the run, delta the day button
\* clicked (0 when none)
render_day_selector(s, now, delta) ==
    LET s1  == IF Has(s, "entry_day") THEN s
               ELSE Put(s, "entry_day", get_entry_day(now))
        day == IF delta = 0 THEN s1["entry_day"]
               ELSE shift_day(s1["entry_day"], delta)
    IN  Put(s1, "entry_day", day)

\* render_stats_tab shows the calendar chart when the table is not empty and
\* has the chart's column
CalendarShown(file) ==
    LET df == load_data(file)
    IN  df.rows # << >> /\ CalendarColumn \in df.cols

\* Mutant of CalendarInit: the week anchor is today, whatever its weekday.
CalendarInit_Today(s, now) ==
    LET s1 == IF Has(s, "calendar_year") THEN s
              ELSE Put(s, "calendar_year", ord2ymd(now).year)
        s2 == IF Has(s1, "calendar_month") THEN s1
              ELSE Put(s1, "calendar_month", ord2ymd(now).month)
    IN  IF Has(s2, "calendar_week_start") THEN s2
        ELSE Put(s2, "calendar_week_start", now)

\* lines 492-497: the calendar keys are set the first time the chart is shown
CalendarInit(s, now) ==
    LET s1 == IF Has(s, "calendar_year") THEN s
              ELSE Put(s, "calendar_year", ord2ymd(now).year)
        s2 == IF Has(s1, "calendar_month") THEN s1
              ELSE Put(s1, "calendar_month", ord2ymd(now).month)
    IN  IF Has(s2, "calendar_week_start") THEN s2
        ELSE Put(s2, "calendar_week_start", now - weekday(now))

\* the stats tab of a run without a click on it
render_stats_tab(s, file, now) ==
    IF CalendarShown(file) THEN CalendarInit(s, now) ELSE s

\* the period the calendar is drawn for (line 518)
CurrentPeriod == IF sel_period = "unset" THEN "month" ELSE sel_period

\* Mutant of NavPrev: January steps back to a month 0 of the same year.
NavPrev_NoWrap(s, period) ==
    IF period = "month"
    THEN Put(s, "calendar_month", s["calendar_month"] - 1)
    ELSE IF period = "week"
    THEN Put(s, "calendar_week_start", s["calendar_week_start"] - 7)
    ELSE Put(s, "calendar_year", s["calendar_year"] - 1)

\* lines 524-535: the Prev button
NavPrev(s, period) ==
    IF period = "month"
    THEN IF s["calendar_month"] = 1
         THEN Put(Put(s, "calendar_month", 12),
                  "calendar_year", s["calendar_year"] - 1)
         ELSE Put(s, "calendar_month", s["calendar_month"] - 1)
    ELSE IF period = "week"
    THEN Put(s, "calendar_week_start", s["calendar_week_start"] - 7)
    ELSE Put(s, "calendar_year", s["calendar_year"] - 1)

\* lines 538-542: the Cur button
NavCur(s, now) ==
    Put(Put(Put(s, "calendar_year", ord2ymd(now).year),
            "calendar_month", ord2ymd(now).month),
        "calendar_week_start", now - weekday(now))

\* lines 545-556: the Next button
NavNext(s, period) ==
    IF period = "month"
    THEN IF s["calendar_month"] = 12
         THEN Put(Put(s, "calendar_month", 1),
                  "calendar_year", s["calendar_year"] + 1)
         ELSE Put(s, "calendar_month", s["calendar_month"] + 1)
    ELSE IF period = "week"
    THEN Put(s, "calendar_week_start", s["calendar_week_start"] + 7)
    ELSE Put(s, "calendar_year", s["calendar_year"] + 1)

Abs(x) == IF x < 0 THEN -x ELSE x
\* the first day of the model as year, month, day
FirstDay == ord2ymd(Today0)
\* month number counted from year 0
MonthIndex(y, m) == 12 * y + m
\* today as year, month, day
FirstDayOf(now) == IF now = Today0 THEN FirstDay ELSE ord2ymd(now)
\* navigation stays within the bounds of the model: the year, month and week
\* steps that lead from today to the state are at most MaxNav
NavInRange(s) ==
    LET f == FirstDayOf(today)
        d == MonthIndex(s["calendar_year"], s["calendar_month"])
               - MonthIndex(f.year, f.month)
        w == Abs(s["calendar_week_start"] - (today - weekday(today))) \div 7
    IN  \E a \in -MaxNav..MaxNav : Abs(a) + Abs(d - 12 * a) + w <= MaxNav

AppInit ==
    /\ disk = NoFile
    /\ call = NoCall
    /\ ret = EmptyDict
    /\ today = Today0
    /\ ss = [k \in {} |-> 0]
    /\ sel_period = "unset"

\* the page has been drawn once, so its buttons can be clicked
PageShown == Has(ss, "entry_day")

\* a run without a click: the first run of the session, or a rerun
RunScript ==
    /\ ss' = render_stats_tab(render_day_selector(ss, today, 0), disk, today)
    /\ UNCHANGED <<disk, call, ret, today, sel_period, raceVars, castVars, statVars>>

\* a run started by the previous-day or next-day button
ClickDay(delta) ==
    /\ PageShown
    /\ shift_day(ss["entry_day"], delta) \in Days
    /\ ss' = render_stats_tab(render_day_selector(ss, today, delta), disk, today)
    /\ UNCHANGED <<disk, call, ret, today, sel_period, raceVars, castVars, statVars>>

\* Mutant of SaveDay: the block is saved for today instead of the day shown.
SaveDay_Today(s, now) == get_entry_day(now)

\* render_entry_tab: the day render_blocks saves for is the selector's day
SaveDay(s, now) == render_day_selector(s, now, 0)["entry_day"]

\* a run started by the save button of block b, the widgets holding values
ClickSave(b) ==
    /\ PageShown
    /\ \E values \in BlockValues(b) :
         /\ disk' = upsert_for_date(disk, SaveDay(ss, today), values)
         /\ ss' = render_stats_tab(render_day_selector(ss, today, 0),
                                   disk', today)
    /\ UNCHANGED <<call, ret, today, sel_period, raceVars, castVars, statVars>>

\* a run started by the Week, Month or Year button of the calendar chart
ClickPeriod(p) ==
    /\ PageShown /\ CalendarShown(disk) /\ Has(ss, "calendar_year")
    /\ sel_period' = p
    /\ ss' = render_stats_tab(render_day_selector(ss, today, 0), disk, today)
    /\ UNCHANGED <<disk, call, ret, today, raceVars, castVars, statVars>>

\* a run started by Prev, Cur or Next, and the rerun it asks for
ClickNav(button) ==
    /\ PageShown /\ CalendarShown(disk) /\ Has(ss, "calendar_year")
    /\ LET s1 == render_stats_tab(render_day_selector(ss, today, 0), disk, today)
           s2 == IF button = "prev" THEN NavPrev(s1, CurrentPeriod)
                 ELSE IF button = "cur" THEN NavCur(s1, today)
                 ELSE NavNext(s1, CurrentPeriod)
       IN  NavInRange(s2) /\ ss' = s2
    /\ UNCHANGED <<disk, call, ret, today, sel_period, raceVars, castVars, statVars>>

Next ==
    \/ RunScript
    \/ \E delta \in {-1, 1} : ClickDay(delta)
    \/ \E b \in Blocks : ClickSave(b)
    \/ \E p \in Periods : ClickPeriod(p)
    \/ \E button \in {"prev", "cur", "next"} : ClickNav(button)

Init == AppInit /\ RaceIdle /\ CastIdle /\ StatIdle

Spec == Init /\ [][Next]_vars

\* C4: the record store changes only on an explicit save: day selection and
\* stepping, rendering, period switches and calendar navigation leave the
\* file unchanged, and a save click upserts the selected day only.
C4_OnlySaveWrites ==
    [][disk' # disk =>
         /\ PageShown
         /\ \E b \in Blocks : \E values \in BlockValues(b) :
              disk' = upsert_for_date(disk, ss["entry_day"], values)
         /\ \A i \in 1..Len(disk.rows) :
              disk.rows[i].date # PyDate(ss["entry_day"])
                 => disk'.rows[i] = disk.rows[i]
         /\ UNCHANGED <<ss["entry_day"], sel_period>>]_vars

\* a save has written a day other than today after the day was stepped, the
\* period switched and the calendar navigated, with another day's record
\* left in the table
C4_Witness ==
    /\ Has(ss, "entry_day") /\ ss["entry_day"] # today
    /\ HasRecord(disk, ss["entry_day"])
    /\ Len(disk.rows) >= 2
    /\ sel_period = "week"
    /\ Has(ss, "calendar_week_start")
    /\ ss["calendar_week_start"] # today - weekday(today)

---------------------------------------------------------------------------
(* Field coercion: cast_initial_value(field, stored).                      *)

\* a key the schema entry does not have
Absent == [t |-> "absent", b |-> FALSE, n |-> 0, s |-> ""]
\* field.get(key): None when the key is absent
Get(x) == IF x = Absent THEN PyNone ELSE x
\* field.get(key, fallback)
GetOr(x, fallback) == IF x = Absent THEN fallback ELSE x

\* str.strip() and str.lower() on the strings the model uses
Strip(s) ==
    CASE s = " "     -> ""
      [] s = " 7 "   -> "7"
      [] s = " YES " -> "YES"
      [] OTHER       -> s
Lower(s) ==
    CASE s = "NaN"  -> "nan"
      [] s = "None" -> "none"
      [] s = "TRUE" -> "true"
      [] s = "True" -> "true"
      [] s = "False" -> "false"
      [] s = "T"    -> "t"
      [] s = "Yes"  -> "yes"
      [] s = "YES"  -> "yes"
      [] s = "Y"    -> "y"
      [] OTHER      -> s
\* Mutant of StripLower: the comparison forgets to fold the case.
StripLower_NoLower(s) == Strip(s)

\* v.strip().lower()
StripLower(s) == Lower(Strip(s))

\* the texts int() and float() parse, and their values (floats in halves)
IntTexts == {"0", "1", "7", " 7 "}
IntOfText(s) == CASE s = "0" -> 0 [] s = "1" -> 1 [] OTHER -> 7
FloatTexts == IntTexts \cup {"7.5"}
HalvesOfText(s) == IF s = "7.5" THEN 15 ELSE 2 * IntOfText(s)

\* int(v): the value, or the exception raised
py_int(v) ==
    CASE v.t = "int"   -> v
      [] v.t = "bool"  -> PyInt(IF v.b THEN 1 ELSE 0)
      [] v.t = "float" -> PyInt(IF v.n >= 0 THEN v.n \div 2 ELSE -((-v.n) \div 2))
      [] v.t = "nan"   -> PyRaise("ValueError")
      [] v.t \in {"inf", "-inf"} -> PyRaise("OverflowError")
      [] v.t = "str"   -> IF v.s \in IntTexts THEN PyInt(IntOfText(v.s))
                          ELSE PyRaise("ValueError")
      [] OTHER         -> PyRaise("TypeError")

\* float(v): the value, or the exception raised
py_float(v) ==
    CASE v.t = "int"   -> PyFloat(2 * v.n)
      [] v.t = "bool"  -> PyFloat(IF v.b THEN 2 ELSE 0)
      [] v.t \in {"float", "nan", "inf", "-inf"} -> v
      [] v.t = "str"   -> IF v.s \in FloatTexts THEN PyFloat(HalvesOfText(v.s))
                          ELSE IF StripLower(v.s) \in {"nan", "+nan", "-nan"}
                          THEN PyNaN
                          ELSE IF StripLower(v.s) \in {"inf", "+inf", "infinity",
                                                       "+infinity"}
                          THEN PyInf
                          ELSE IF StripLower(v.s) \in {"-inf", "-infinity"}
                          THEN PyNegInf
                          ELSE PyRaise("ValueError")
      [] OTHER         -> PyRaise("TypeError")

\* bool(v)
py_bool(v) ==
    CASE v.t = "bool" -> v.b
      [] v.t = "none" -> FALSE
      [] v.t \in {"int", "float"} -> v.n # 0
      [] v.t = "str"  -> v.s # ""
      [] OTHER        -> TRUE

\* str(v)
DigitText(n) ==
    CASE n = 0 -> "0" [] n = 1 -> "1" [] n = 2 -> "2" [] n = 3 -> "3"
      [] n = 4 -> "4" [] n = 5 -> "5" [] n = 6 -> "6" [] n = 7 -> "7"
      [] n = 8 -> "8" [] OTHER -> "9"
\* str(n) of an int
RECURSIVE IntStr(_)
IntStr(n) ==
    IF n < 0 THEN "-" \o IntStr(-n)
    ELSE IF n < 10 THEN DigitText(n)
    ELSE IntStr(n \div 10) \o DigitText(n % 10)
\* str(x) of a float of h halves (below 1e16, where repr has no exponent)
FloatStr(h) ==
    (IF h < 0 THEN "-" ELSE "")
        \o IntStr((IF h < 0 THEN -h ELSE h) \div 2)
        \o (IF h % 2 = 0 THEN ".0" ELSE ".5")
\* str(x) of a float of x tenths
DecStr(x) ==
    (IF x < 0 THEN "-" ELSE "")
        \o IntStr((IF x < 0 THEN -x ELSE x) \div 10)
        \o "." \o DigitText((IF x < 0 THEN -x ELSE x) % 10)
py_str(v) ==
    CASE v.t = "str"   -> v.s
      [] v.t = "none"  -> "None"
      [] v.t = "nan"   -> "nan"
      [] v.t = "inf"   -> "inf"
      [] v.t = "-inf"  -> "-inf"
      [] v.t = "bool"  -> IF v.b THEN "True" ELSE "False"
      [] v.t = "int"   -> IntStr(v.n)
      [] v.t = "float" -> FloatStr(v.n)
      [] v.t = "dec"   -> DecStr(v.n)
      [] OTHER         -> ""

\* pd.isna(v)
isna(v) == v.t \in {"none", "nan"}
\* isinstance(v, str) and v.strip().lower() in {"", "none", "nan"}
IsBlankText(v) == v.t = "str" /\ StripLower(v.s) \in {"", "none", "nan"}
\* the exceptions "except (TypeError, ValueError)" catches
Caught(r) == r.t = "raise" /\ r.s \in {"TypeError", "ValueError"}

\* dt.datetime.strptime(v, "%H:%M:%S").time(), in seconds after midnight
TimeTexts == {"08:30:00"}
SecondsOfText(s) == 30600

\* v in opts
InOptions(v, opts) == \E i \in 1..Len(opts) : opts[i] = v

\* lines 124-132
CastNumber(field, v) ==
    IF v = PyNone \/ IsBlankText(v) THEN PyNone
    ELSE LET r == IF field.subtype = "int" THEN py_int(v) ELSE py_float(v)
         IN  IF Caught(r) THEN PyNone ELSE r

\* lines 134-144
CastCheckbox(field, v) ==
    IF v = PyNone THEN PyBool(py_bool(Get(field.default)))
    ELSE IF isna(v) THEN PyBool(py_bool(Get(field.default)))
    ELSE IF v.t = "str"
    THEN PyBool(StripLower(v.s) \in {"1", "true", "t", "yes", "y"})
    ELSE PyBool(py_bool(v))

\* Mutant of CastSelect: the value is returned without the membership test.
CastSelect_NoTest(field, v) ==
    IF v.t = "str" THEN v
    ELSE IF field.options # << >> THEN field.options[1] ELSE PyStr("")

\* lines 146-150
CastSelect(field, v) ==
    IF InOptions(v, field.options) THEN v
    ELSE IF field.options # << >> THEN field.options[1] ELSE PyStr("")

\* lines 152-161
CastSlider(field, v) ==
    LET fallback == GetOr(field.default, GetOr(field.min, PyInt(0)))
        v1 == IF v = PyNone \/ IsBlankText(v) THEN fallback ELSE v
        r  == py_int(v1)
    IN  IF Caught(r) THEN py_int(fallback) ELSE r

\* lines 163-164
CastText(field, v) == IF v = PyNone THEN PyStr("") ELSE PyStr(py_str(v))

\* Mutant of CastTime: the fallback is midnight instead of the wall clock.
CastTime_Midnight(field, v, now) ==
    IF v.t = "str" /\ v.s # "now" /\ v.s \in TimeTexts
    THEN PyTime(SecondsOfText(v.s))
    ELSE PyTime(0)

\* lines 166-172
CastTime(field, v, now) ==
    IF v.t = "str" /\ v.s # "now" /\ v.s \in TimeTexts
    THEN PyTime(SecondsOfText(v.s))
    ELSE PyTime(now)

cast_initial_value(field, stored_value, now) ==
    LET t == field.type
        default == Get(field.default)
        v == IF stored_value # PyNone THEN stored_value ELSE default
    IN  CASE t = "number"   -> CastNumber(field, v)
          [] t = "checkbox" -> CastCheckbox(field, v)
          [] t = "select"   -> CastSelect(field, v)
          [] t = "slider"   -> CastSlider(field, v)
          [] t \in {"text", "textarea"} -> CastText(field, v)
          [] t = "time"     -> CastTime(field, v, now)
          [] OTHER          -> v

---------------------------------------------------------------------------
(* cast_initial_value called with every schema entry and stored value of   *)
(* bounded sets, while the wall clock advances.                            *)

\* the wall clock runs from 0 to MaxClock seconds after midnight
MaxClock == 1

Entry(t, st, d, m, o) ==
    [type |-> t, subtype |-> st, default |-> d, min |-> m, options |-> o]
\* the schema entries of a configuration: every type, with and without
\* default, min and options
Schemas ==
         {Entry("number", st, d, Absent, << >>) :
             st \in {"int", "float"}, d \in {Absent, PyInt(5)}}
    \cup {Entry("checkbox", "float", d, Absent, << >>) :
             d \in {Absent, PyBool(TRUE), PyBool(FALSE)}}
    \cup {Entry("select", "float", d, Absent, o) :
             d \in {Absent, PyStr("b")}, o \in {<< >>, <<PyStr("a"), PyStr("b")>>}}
    \cup {Entry("slider", "float", d, m, << >>) :
             d \in {Absent, PyInt(5)}, m \in {Absent, PyInt(1)}}
    \cup {Entry(t, "float", d, Absent, << >>) :
             t \in {"text", "textarea"}, d \in {Absent, PyStr("hello")}}
    \cup {Entry("time", "float", d, Absent, << >>) :
             d \in {Absent, PyStr("now"), PyStr("08:30:00")}}

CastTexts == {"", " ", "abc", "zzz", "a", "b", "hello", "0", "1", "7", " 7 ",
              "7.5", "nan", "NaN", "None", "true", "TRUE", "t", "T", "yes",
              "Yes", " YES ", "y", "Y", "no", "now", "08:30:00"}
\* the raw values a cell of the table, or a caller, can hand over
StoredValues ==
    {PyNone, PyNaN, PyInf, PyNegInf, PyBool(TRUE), PyBool(FALSE), PyInt(0),
     PyInt(7), PyFloat(15)} \cup {PyStr(x) : x \in CastTexts}

CastInit ==
    /\ fld = NoField
    /\ stored = PyNone
    /\ out = PyNone
    /\ at = 0
    /\ memo = NoMemo
    /\ cfg = NoConfig
    /\ clock = 0

\* one call of cast_initial_value (render_field, line 184)
CastCall ==
    /\ \E f \in Schemas : \E v \in StoredValues :
         /\ fld' = f
         /\ stored' = v
         /\ out' = cast_initial_value(f, v, clock)
    /\ at' = clock
    /\ UNCHANGED <<memo, cfg, clock, storeVars, appVars, raceVars, statVars>>

\* time passes between two calls
ClockTick ==
    /\ clock < MaxClock
    /\ clock' = clock + 1
    /\ UNCHANGED <<fld, stored, out, at, memo, cfg,
                   storeVars, appVars, raceVars, statVars>>

CastNext == CastCall \/ ClockTick

CastSpecInit == CastInit /\ StoreIdle /\ AppIdle /\ RaceIdle /\ StatIdle

CastSpec == CastSpecInit /\ [][CastNext]_vars

---------------------------------------------------------------------------
(* Claims about field coercion.                                            *)

Missing(v) == v \in {PyNone, PyNaN}
\* the type-specific fallback of the specification
TypeFallback(field, now) ==
    CASE field.type \in {"text", "textarea"} -> PyStr("")
      [] field.type = "checkbox" -> PyBool(FALSE)
      [] field.type = "select" ->
            IF field.options # << >> THEN field.options[1] ELSE PyStr("")
      [] field.type = "slider" -> GetOr(field.min, PyInt(0))
      [] OTHER -> PyTime(now)
\* a value that already is of the entry's type
ValidFor(field, v) ==
    CASE field.type \in {"text", "textarea"} -> v.t = "str"
      [] field.type = "checkbox" -> v.t = "bool"
      [] field.type = "select" -> InOptions(v, field.options)
      [] field.type = "slider" -> v.t = "int"
      [] OTHER -> v.t = "str" /\ v.s \in TimeTexts
\* a valid value as the widget takes it
AsTyped(field, v, now) ==
    IF field.type = "time"
    THEN IF v.s \in TimeTexts THEN PyTime(SecondsOfText(v.s)) ELSE PyTime(now)
    ELSE IF field.type = "select" /\ ~InOptions(v, field.options)
    THEN TypeFallback(field, now)
    ELSE v
\* the precedence of the specification: stored, else default, else fallback
Precedence(field, v, now) ==
    IF ~Missing(v) THEN AsTyped(field, v, now)
    ELSE IF field.default # Absent THEN AsTyped(field, field.default, now)
    ELSE TypeFallback(field, now)

CoercedTypes == {"text", "textarea", "checkbox", "select", "slider", "time"}

\* C6: for every schema entry type and stored value, cast_initial_value
\* takes the stored value if it is present and non-missing (neither None
\* nor NaN), else the schema default, else the type-specific fallback.
C6_Precedence ==
    (fld.type \in CoercedTypes /\ (Missing(stored) \/ ValidFor(fld, stored)))
        => out = Precedence(fld, stored, at)

\* the texts the claim names, in several letter cases
TrueTexts == {"1", "true", "TRUE", "t", "T", "yes", "Yes", "y", "Y"}

\* C7: for a checkbox, "1", "true", "t", "yes", "y" in any letter case give
\* true, and the empty string, None and NaN give the schema default cast to
\* boolean.
C7_CheckboxAsStated ==
    fld.type = "checkbox" =>
        /\ (stored.t = "str" /\ stored.s \in TrueTexts) => out = PyBool(TRUE)
        /\ (Missing(stored) \/ stored = PyStr(""))
              => out = PyBool(py_bool(Get(fld.default)))

\* what the checkbox branch does with these values: the texts give true,
\* None and NaN give the default cast to boolean (the defaults of Schemas
\* are booleans or absent), and the empty string gives false whatever the
\* default
CheckboxAsCoded ==
    fld.type = "checkbox" =>
        /\ (stored.t = "str" /\ stored.s \in TrueTexts) => out = PyBool(TRUE)
        /\ Missing(stored) => out = PyBool(py_bool(Get(fld.default)))
        /\ stored = PyStr("") => out = PyBool(FALSE)

\* a checkbox whose default is true was given the empty string and came out
\* false
EmptyTextUnchecked ==
    /\ fld.type = "checkbox" /\ fld.default = PyBool(TRUE)
    /\ stored = PyStr("")
    /\ out = PyBool(FALSE)

\* C8: for a select, the coerced value is one of the configured options (the
\* empty string when there are none), and a stored value that is not among
\* the options gives the first option.
C8_SelectInOptions ==
    fld.type = "select" =>
        /\ fld.options = << >> => out = PyStr("")
        /\ fld.options # << >> => InOptions(out, fld.options)
        /\ (stored # PyNone /\ fld.options # << >>
              /\ ~InOptions(stored, fld.options)) => out = fld.options[1]

\* a select with options and a default was given a text that is no option
\* and came out as the first option
C8_Witness ==
    /\ fld.type = "select" /\ fld.options # << >>
    /\ fld.default = PyStr("b")
    /\ stored = PyStr("zzz")
    /\ out = fld.options[1]

\* a stored value int() reads as a number
Numeric(v) ==
    \/ v.t \in {"int", "float", "bool", "inf", "-inf"}
    \/ v.t = "str" /\ v.s \in IntTexts

\* C9: for a slider, cast_initial_value returns an integer for every stored
\* value, and a missing or non-numeric value falls back to the default,
\* then the minimum, then 0.
C9_SliderInteger ==
    fld.type = "slider" =>
        /\ out.t = "int"
        /\ (Missing(stored) \/ ~Numeric(stored)) =>
              out = GetOr(fld.default, GetOr(fld.min, PyInt(0)))

\* C10: cast_initial_value never raises, whatever the schema entry and the
\* stored value.
C10_NeverRaises == out.t # "raise"

---------------------------------------------------------------------------
(* Two calls of cast_initial_value compared.  The schema entries are the   *)
(* dicts of the configuration, loaded once (load_config) and handed to     *)
(* every call; a call is kept in memo while other calls are made on the    *)
(* same dicts and the wall clock advances.                                 *)

\* schema entries of every type: without default, and a time field with
\* each default
PureSchemas ==
    {f \in Schemas :
        /\ f.min = Absent
        /\ f.default = Absent \/ f.type = "time"
        /\ f.type = "select" => f.options # << >>}
PureStored == {PyNone, PyNaN, PyInt(7), PyStr("b"), PyStr("abc"),
               PyStr("now"), PyStr("08:30:00")}
\* the configuration as loaded: every entry under its own description
LoadedConfig == [f \in PureSchemas |-> f]

\* Mutant of FieldAfter: the default is taken out of the dict
\* (field.pop("default", None)) instead of read.
FieldAfter_Pop(field, stored_value) == [field EXCEPT !.default = Absent]

\* the dict of the schema entry after a call: lines 118-172 read it with
\* field["type"] and field.get(...), which change no key
FieldAfter(field, stored_value) == field

PureInit ==
    /\ fld = NoField
    /\ stored = PyNone
    /\ out = PyNone
    /\ at = 0
    /\ memo = NoMemo
    /\ cfg = LoadedConfig
    /\ clock = 0

\* one call of cast_initial_value with an entry of the configuration, as
\* the calls before left it; the call is kept for comparison, or the call
\* kept before stays and records whether a call with other arguments came
\* after it
PureCall ==
    /\ \E f \in PureSchemas : \E v \in PureStored : \E keep \in BOOLEAN :
         LET r == cast_initial_value(cfg[f], v, clock)
         IN  /\ fld' = cfg[f]
             /\ stored' = v
             /\ out' = r
             /\ cfg' = [cfg EXCEPT ![f] = FieldAfter(cfg[f], v)]
             /\ memo' = IF keep \/ memo = NoMemo
                        THEN [fld |-> f, stored |-> v, out |-> r,
                              at |-> clock, between |-> FALSE, last |-> f]
                        ELSE [memo EXCEPT
                                 !.between = @ \/ f # memo.fld \/ v # memo.stored,
                                 !.last = f]
    /\ at' = clock
    /\ UNCHANGED <<clock, storeVars, appVars, raceVars, statVars>>

PureNext == PureCall \/ ClockTick

PureSpecInit == PureInit /\ StoreIdle /\ AppIdle /\ RaceIdle /\ StatIdle

PureSpec == PureSpecInit /\ [][PureNext]_vars

\* the latest call has the entry and the stored value of the call kept
SameCall == memo # NoMemo /\ memo.last = memo.fld /\ memo.stored = stored
\* the value the call works on (line 122)
Effective(field, v) == IF v # PyNone THEN v ELSE Get(field.default)
\* a time field whose value is no "HH:MM:SS" text reads the wall clock
ReadsClock(field, v) ==
    /\ field.type = "time"
    /\ ~(Effective(field, v).t = "str" /\ Effective(field, v).s \in TimeTexts)

\* C11 as stated: two calls of cast_initial_value with the same schema
\* entry and the same stored value return the same output, whatever calls
\* happen between them and whatever the wall-clock time is.
C11_SameOutput == SameCall => out = memo.out

\* C11 as amended: no call modifies a schema entry, and two calls with the
\* same schema entry and stored value return the same output whatever calls
\* happen between them, except for a time field whose value is "now",
\* missing or no "HH:MM:SS" text: each such call returns the wall-clock
\* time at which it is made.
C11_PureButTime ==
    /\ cfg = LoadedConfig
    /\ (SameCall /\ ~ReadsClock(memo.fld, stored)) => out = memo.out
    /\ (fld # NoField /\ ReadsClock(fld, stored)) => out = PyTime(at)

\* the same time field with stored "now" was coerced twice, with a call of
\* other arguments between, at two wall-clock times: the outputs differ
C11_Witness ==
    /\ SameCall /\ memo.between
    /\ fld.type = "time" /\ stored = PyStr("now")
    /\ memo.at # at
    /\ out # memo.out

\* the same entry was coerced twice with the same stored value, with a call
\* of other arguments between and at two wall-clock times, and the outputs
\* are the same: a time field with a default that parses and nothing stored
C11_WitnessSame ==
    /\ SameCall /\ memo.between
    /\ fld.type = "time" /\ stored = PyNone
    /\ ~ReadsClock(memo.fld, stored)
    /\ memo.at # at
    /\ out = memo.out

---------------------------------------------------------------------------
(* The calendar chart of the stats tab: sessions that start on days of     *)
(* every weekday with a table that has the chart's column, and in which    *)
(* the period buttons and Prev, Cur and Next are clicked while days pass.  *)

\* 2024-01-10 (Wed), 2024-02-29 (Thu), 2024-03-01 (Fri), 2024-03-02 (Sat),
\* 2024-12-30 (Mon), 2024-12-31 (Tue), 2025-01-05 (Sun)
StartDays == {738895, 738945, 738946, 738947, Today0, 739251, 739256}
\* how many midnights a session outlasts
MaxMidnight == 1
NavDays == UNION {d .. (d + MaxMidnight) : d \in StartDays}

\* the session starts with a table that holds a gym record for today
NavInit ==
    /\ today \in StartDays
    /\ disk = upsert_for_date(NoFile, today, [gym |-> PyBool(TRUE)])
    /\ call = NoCall
    /\ ret = EmptyDict
    /\ ss = [k \in {} |-> 0]
    /\ sel_period = "unset"

\* midnight passes between two runs of the script (datetime.now(), line 485)
Midnight ==
    /\ today + 1 \in NavDays
    /\ today' = today + 1
    /\ UNCHANGED <<disk, call, ret, ss, sel_period, raceVars, castVars, statVars>>

CalendarNext ==
    \/ RunScript
    \/ \E p \in Periods : ClickPeriod(p)
    \/ \E button \in {"prev", "cur", "next"} : ClickNav(button)
    \/ Midnight

NavSpecInit == NavInit /\ RaceIdle /\ CastIdle /\ StatIdle

NavSpec == NavSpecInit /\ [][CalendarNext]_vars

\* the anchors of the three periods
AnchorYear(s)  == s["calendar_year"]
AnchorMonth(s) == s["calendar_month"]
AnchorWeek(s)  == s["calendar_week_start"]

\* what a Prev (step = -1) or Next (step = 1) click does to the anchors
OneUnit(s, t, period, step) ==
    /\ DOMAIN t = DOMAIN s
    /\ t["entry_day"] = s["entry_day"]
    /\ period = "month" =>
         /\ MonthIndex(AnchorYear(t), AnchorMonth(t))
              = MonthIndex(AnchorYear(s), AnchorMonth(s)) + step
         /\ AnchorMonth(t) \in 1..12
         /\ AnchorWeek(t) = AnchorWeek(s)
    /\ period = "week" =>
         /\ AnchorWeek(t) = AnchorWeek(s) + 7 * step
         /\ AnchorYear(t) = AnchorYear(s)
         /\ AnchorMonth(t) = AnchorMonth(s)
    /\ period = "year" =>
         /\ AnchorYear(t) = AnchorYear(s) + step
         /\ AnchorMonth(t) = AnchorMonth(s)
         /\ AnchorWeek(t) = AnchorWeek(s)

\* C12: a Prev or Next click moves only the anchor of the selected period,
\* by exactly one unit: in month period to the preceding or following
\* calendar month with the month kept in 1..12 (January steps back to
\* December of the year before, December forward to January of the year
\* after), in week period by 7 days, in year period by one year; the
\* selected period and the table stay as they are.
C12_NavOneUnit ==
    [][/\ ClickNav("prev") =>
            OneUnit(ss, ss', CurrentPeriod, -1) /\ UNCHANGED <<sel_period, disk>>
       /\ ClickNav("next") =>
            OneUnit(ss, ss', CurrentPeriod, 1) /\ UNCHANGED <<sel_period, disk>>
      ]_vars

\* in a session of January 2024, in month period, the calendar was stepped
\* back to (2023, 12) and the week anchor stayed on the Monday of today's
\* week
C12_Witness ==
    /\ FirstDayOf(today).year = 2024 /\ FirstDayOf(today).month = 1
    /\ CurrentPeriod = "month"
    /\ Has(ss, "calendar_year")
    /\ AnchorYear(ss) = 2023 /\ AnchorMonth(ss) = 12
    /\ AnchorWeek(ss) = today - weekday(today)

---------------------------------------------------------------------------
(* get_activity_score and get_subjective_average.  An entry is a dict: a   *)
(* function from the keys it has to Python values.                         *)

\* a fixed-point float in tenths (n = 36 is 3.6): what round(x, 1) returns
PyDec(x) == [t |-> "dec", b |-> FALSE, n |-> x, s |-> ""]

\* entry.get(key, fallback)
EntryGet(e, key, fallback) == IF key \in DOMAIN e THEN e[key] ELSE fallback
\* x or 0
OrZero(x) == IF py_bool(x) THEN x ELSE PyInt(0)
\* float(entry.get(key, 0) or 0)
FloatOf(e, key) == py_float(OrZero(EntryGet(e, key, PyInt(0))))
\* if entry.get(key): 1 when the branch is taken
Flag(e, key) == IF py_bool(EntryGet(e, key, PyNone)) THEN 1 ELSE 0
\* x > k for a float x and an integer k (false for NaN and -inf)
Above(x, k) == x.t = "inf" \/ (x.t = "float" /\ x.n > 2 * k)

\* Mutant of StepsBonus: the thresholds count when they are reached.
StepsBonus_AtLeast(steps) ==
    IF ~Above(steps, 4999) THEN (IF Above(steps, 1999) THEN 1 ELSE 0) ELSE 2

\* lines 284-287
StepsBonus(steps) ==
    IF Above(steps, 5000) THEN 2 ELSE IF Above(steps, 2000) THEN 1 ELSE 0

\* plot_stats.get_activity_score
get_activity_score(e) ==
    LET run_km   == FloatOf(e, "run_km")
        steps    == FloatOf(e, "walking_steps")
        cannabis == FloatOf(e, "cannabis")
        fixed    == 3 * Flag(e, "gym") + StepsBonus(steps)
                    + 2 * Flag(e, "morning_exercise") + Flag(e, "meditation")
                    - 2 * Flag(e, "compulsive_behavior")
                    - (IF Above(cannabis, 0) THEN 1 ELSE 0)
    IN  IF "raise" \in {run_km.t, steps.t, cannabis.t} THEN PyFloat(0)
        ELSE IF run_km.t \in {"nan", "inf", "-inf"} THEN run_km
        ELSE PyFloat(2 * fixed + 2 * run_km.n)

\* the keys of the subjective average, and those counted as 10 - value
SubjectiveKeys == {"motivation", "mental_clarity", "mood_content",
                   "productivity", "fatigue", "stress", "overstimulation"}
InvertedKeys == {"fatigue", "stress", "overstimulation"}

RECURSIVE SumHalves(_, _)
\* the sum of the seven terms, in halves
SumHalves(e, K) ==
    IF K = {} THEN 0
    ELSE LET k == CHOOSE x \in K : TRUE
             h == py_float(e[k]).n
         IN  (IF k \in InvertedKeys THEN 20 - h ELSE h)
             + SumHalves(e, K \ {k})

\* round(x / 7.0, 1) for x in halves, in tenths
RoundSeventh(h) == (10 * h + 7) \div 14

\* main.get_subjective_average: a term that is NaN makes the sum NaN; an
\* infinite value makes its term inf or -inf, with the sign turned where
\* the value is taken from 10.0, and the sum inf, -inf, or NaN when it has
\* terms of both signs (inf - inf); round(x, 1) leaves NaN, inf and -inf
\* as they are
get_subjective_average(e) ==
    IF \E k \in SubjectiveKeys : k \notin DOMAIN e THEN PyNaN
    ELSE LET ts == {py_float(e[k]).t : k \in SubjectiveKeys}
             Term(k, sign) ==
                 py_float(e[k]).t = (IF k \in InvertedKeys
                                     THEN (IF sign = "inf" THEN "-inf" ELSE "inf")
                                     ELSE sign)
             up   == \E k \in SubjectiveKeys : Term(k, "inf")
             down == \E k \in SubjectiveKeys : Term(k, "-inf")
         IN  IF "raise" \in ts THEN PyNaN
             ELSE IF "nan" \in ts THEN PyNaN
             ELSE IF up /\ down THEN PyNaN
             ELSE IF up THEN PyInf
             ELSE IF down THEN PyNegInf
             ELSE PyDec(RoundSeventh(SumHalves(e, SubjectiveKeys)))

---------------------------------------------------------------------------
(* The two functions applied to entries of bounded sets.                   *)

\* the values of the activity fields: absent, well typed, not a number and
\* not convertible
ActivityChoices ==
    [gym                 : {Absent, PyBool(TRUE), PyBool(FALSE), PyNaN},
     run_km              : {Absent, PyNone, PyInt(0), PyInt(5), PyFloat(5),
                            PyNaN, PyInf, PyNegInf, PyStr("abc")},
     walking_steps       : {Absent, PyInt(2000), PyInt(2001), PyInt(5000),
                            PyInt(5001), PyInt(6000), PyNegInf},
     morning_exercise    : {Absent, PyBool(TRUE), PyBool(FALSE)},
     meditation          : {Absent, PyBool(TRUE), PyBool(FALSE)},
     compulsive_behavior : {Absent, PyBool(TRUE), PyBool(FALSE)},
     cannabis            : {Absent, PyInt(0), PyInt(1), PyFloat(1),
                            PyStr("abc")}]
Grades == {Absent, PyInt(3), PyFloat(15)}
SubjectiveChoices ==
    [motivation      : {Absent, PyInt(0), PyInt(3), PyFloat(15), PyInt(10),
                        PyNaN, PyInf, PyNegInf, PyStr("abc")},
     mental_clarity  : Grades,
     mood_content    : Grades,
     productivity    : Grades,
     fatigue         : {Absent, PyInt(0), PyInt(3), PyInt(10), PyInf,
                        PyNegInf, PyStr("abc")},
     stress          : Grades,
     overstimulation : Grades]

\* the dict of a choice: the keys chosen absent are left out
DictOf(c) == [k \in {x \in DOMAIN c : c[x] # Absent} |-> c[k]]

ScoreInit ==
    /\ \E c \in ActivityChoices \cup SubjectiveChoices : entry = DictOf(c)
    /\ score = NoScore
    /\ tbl = NoTable
    /\ req = NoRequest
    /\ fig = NoFigure

\* both functions are called with the entry
ScoreCall ==
    /\ ~score.done
    /\ score' = [done |-> TRUE,
                 activity |-> get_activity_score(entry),
                 average |-> get_subjective_average(entry)]
    /\ UNCHANGED <<entry, tbl, req, fig,
                   storeVars, appVars, raceVars, castVars>>

ScoreNext == ScoreCall

ScoreSpecInit == ScoreInit /\ StoreIdle /\ AppIdle /\ RaceIdle /\ CastIdle

ScoreSpec == ScoreSpecInit /\ [][ScoreNext]_vars

---------------------------------------------------------------------------
(* Claims about the score and the average.                                 *)

ActivityKeys == {"gym", "run_km", "walking_steps", "morning_exercise",
                 "meditation", "compulsive_behavior", "cannabis"}
FlagKeys == {"gym", "morning_exercise", "meditation", "compulsive_behavior"}
\* an entry whose flags are booleans and whose quantities are numbers, where
\* it has them
WellTyped(e) ==
    /\ DOMAIN e \subseteq ActivityKeys
    /\ \A k \in DOMAIN e :
         IF k \in FlagKeys THEN e[k].t = "bool" ELSE e[k].t \in {"int", "float"}
\* a quantity of the entry in halves, 0 when the entry does not have it
Halves(e, k) ==
    IF k \notin DOMAIN e THEN 0
    ELSE IF e[k].t = "int" THEN 2 * e[k].n ELSE e[k].n
Is(e, k) == k \in DOMAIN e /\ e[k] = PyBool(TRUE)
\* the score of the specification, in halves
StatedScore(e) ==
    2 * ( (IF Is(e, "gym") THEN 3 ELSE 0)
        + (IF Halves(e, "walking_steps") > 2 * 5000 THEN 2
           ELSE IF Halves(e, "walking_steps") > 2 * 2000 THEN 1 ELSE 0)
        + (IF Is(e, "morning_exercise") THEN 2 ELSE 0)
        + (IF Is(e, "meditation") THEN 1 ELSE 0)
        - (IF Is(e, "compulsive_behavior") THEN 2 ELSE 0)
        - (IF Halves(e, "cannabis") > 0 THEN 1 ELSE 0) )
    + 2 * Halves(e, "run_km")

\* the entry of the specification's example
ExampleEntry ==
    [gym |-> PyBool(TRUE), run_km |-> PyInt(5), walking_steps |-> PyInt(6000),
     meditation |-> PyBool(TRUE), compulsive_behavior |-> PyBool(FALSE),
     cannabis |-> PyInt(0)]

\* C13: for an entry whose flags are booleans and whose quantities are
\* numbers, the activity score is 3 if gym, plus 2 per run kilometre, plus 2
\* if the steps exceed 5000 (else 1 if they exceed 2000), plus 2 if morning
\* exercise, plus 1 if meditation, minus 2 if compulsive behaviour, minus 1
\* if cannabis is above 0; the example entry scores 16.
C13_ActivityScore ==
    /\ (score.done /\ WellTyped(entry))
          => score.activity = PyFloat(StatedScore(entry))
    /\ (score.done /\ entry = ExampleEntry) => score.activity = PyFloat(2 * 16)

\* the example entry has been scored, and scores 16
C13_Witness ==
    /\ score.done
    /\ entry = ExampleEntry
    /\ score.activity = PyFloat(32)

\* a quantity of the activity score that float() cannot convert
ActivityFails(e) ==
    \E k \in {"run_km", "walking_steps", "cannabis"} :
        k \in DOMAIN e /\ py_bool(e[k]) /\ py_float(e[k]).t = "raise"
\* a term of the average that is missing or that float() cannot convert
AverageFails(e) ==
    \E k \in SubjectiveKeys : k \notin DOMAIN e \/ py_float(e[k]).t = "raise"

\* C14: when a needed field is missing or cannot be converted to a number,
\* get_activity_score and get_subjective_average both return NaN, and
\* neither raises.
C14_NaNOnFailure ==
    score.done =>
        /\ score.activity.t # "raise" /\ score.average.t # "raise"
        /\ ActivityFails(entry) => score.activity = PyNaN
        /\ AverageFails(entry) => score.average = PyNaN

---------------------------------------------------------------------------
(* plot_time_series.  A table is [date_col, cols, rows]: whether it has a  *)
(* date column, its other columns, and its rows [date, v], v the cell of   *)
(* the one metric column the model follows.  A number of the chart is an   *)
(* exact fraction [nan, num, den] in lowest terms.                         *)

RECURSIVE GCD(_, _)
GCD(a, b) == IF b = 0 THEN a ELSE GCD(b, a % b)
NaNValue == [nan |-> TRUE, num |-> 0, den |-> 1]
\* num / den for den > 0, in lowest terms
Frac(num, den) ==
    LET g == GCD(Abs(num), den)
    IN  [nan |-> FALSE, num |-> num \div g, den |-> den \div g]

\* Mutant of df_empty: only a table without columns counts as empty.
df_empty_NoColumns(t) == ~t.date_col /\ t.cols = {}

\* df.empty: no rows, or no columns
df_empty(t) == t.rows = << >> \/ (~t.date_col /\ t.cols = {})

\* pd.to_datetime(x, errors="coerce"): NaT for what is no date
to_datetime(x) == IF x.t = "date" THEN x ELSE PyNaN
\* pd.to_numeric(x, errors="coerce")
to_numeric(x) ==
    CASE x.t = "int"   -> Frac(x.n, 1)
      [] x.t = "float" -> Frac(x.n, 2)
      [] x.t = "bool"  -> Frac(IF x.b THEN 1 ELSE 0, 1)
      [] x.t = "str" /\ x.s \in FloatTexts -> Frac(HalvesOfText(x.s), 2)
      [] OTHER         -> NaNValue

\* lines 50-51: the rows whose date parses
DropNaT(rows) == SelectSeq(rows, LAMBDA r : to_datetime(r.date) # PyNaN)

\* lines 55-62: the days looked back
Lookback(period) ==
    CASE period = "week"  -> 7
      [] period = "month" -> 30
      [] period = "year"  -> 365
      [] OTHER            -> 30

\* Mutant of InWindow: the start date itself is left out.
InWindow_After(d, period, now) == d > now - Lookback(period)

\* line 64: date >= start_date
InWindow(d, period, now) == d >= now - Lookback(period)

RECURSIVE InsertByDate(_, _)
InsertByDate(sorted, r) ==
    IF sorted = << >> THEN <<r>>
    ELSE IF sorted[Len(sorted)].date.n <= r.date.n THEN Append(sorted, r)
    ELSE Append(InsertByDate(SubSeq(sorted, 1, Len(sorted) - 1), r),
                sorted[Len(sorted)])
RECURSIVE sort_values(_)
\* sort_values("date")
sort_values(rows) ==
    IF rows = << >> THEN << >>
    ELSE InsertByDate(sort_values(SubSeq(rows, 1, Len(rows) - 1)),
                      rows[Len(rows)])

\* line 64: df_filtered
df_filtered(t, period, now) ==
    sort_values(SelectSeq(DropNaT(t.rows),
                          LAMBDA r : InWindow(r.date.n, period, now)))

\* lines 72-73: the measured points
Measured(filtered) ==
    [i \in 1..Len(filtered) |->
        [date |-> filtered[i].date.n, y |-> to_numeric(filtered[i].v)]]

\* lines 76-78: the rows of the days from first to last without a point
GapRows(first, last) ==
    [k \in 1..(last - first + 1) |-> [date |-> first + k - 1, y |-> NaNValue]]
\* lines 76-78: the left join of the daily date range with the points (they
\* are sorted by date): a row per point, and a row per day without one
RECURSIVE MergeDays(_, _)
MergeDays(points, i) ==
    IF i = 1 THEN <<points[1]>>
    ELSE MergeDays(points, i - 1)
         \o GapRows(points[i - 1].date + 1, points[i].date - 1)
         \o <<points[i]>>
df_complete(points) == MergeDays(points, Len(points))

\* line 81: Series.interpolate(method="linear"): the rows count as equally
\* spaced; a gap is filled on the line through its two neighbours, the
\* rows after the last number repeat it, the rows before the first stay NaN
interpolate(samples) ==
    LET valid == {i \in 1..Len(samples) : ~samples[i].y.nan}
        Value(i) ==
            LET before == {j \in valid : j < i}
                after  == {k \in valid : k > i}
            IN  IF i \in valid THEN samples[i].y
                ELSE IF before = {} THEN NaNValue
                ELSE LET j == CHOOSE x \in before : \A z \in before : z <= x
                         a == samples[j].y
                     IN  IF after = {} THEN a
                         ELSE LET k == CHOOSE x \in after : \A z \in after : x <= z
                                  b == samples[k].y
                                  \* a + (b - a) * (i - j) / (k - j)
                                  n == (k - j) * a.den * b.den
                              IN  Frac(a.num * b.den * (k - j)
                                       + (b.num * a.den - a.num * b.den) * (i - j),
                                       n)
    IN  [i \in 1..Len(samples) |-> [date |-> samples[i].date, y |-> Value(i)]]

\* a figure with an annotation and no trace
Annotated(text) == [kind |-> "annotation", label |-> text,
                    measured |-> << >>, line |-> << >>, cells |-> << >>]

\* plot_stats.plot_time_series
plot_time_series(t, column, period, now) ==
    IF df_empty(t) \/ column \notin t.cols THEN Annotated("No data available")
    ELSE IF ~t.date_col THEN Annotated("Missing 'date' column")
    ELSE LET filtered == df_filtered(t, period, now)
         IN  IF filtered = << >>
             THEN Annotated("No data for the last " \o period)
             ELSE [kind |-> "series", label |-> "",
                   measured |-> Measured(filtered),
                   line |-> interpolate(df_complete(Measured(filtered))),
                   cells |-> << >>]

---------------------------------------------------------------------------
(* plot_exercise_calendar and the three calendar views.  A cell of a view  *)
(* is [x, y, date, active]: the position of its marker, its date and       *)
(* whether it is drawn as a day with exercise.                             *)

\* the call raised the exception
Raised(e) == [kind |-> "raise", label |-> e, measured |-> << >>,
              line |-> << >>, cells |-> << >>]
CalendarFigure(cells) == [kind |-> "calendar", label |-> "",
                          measured |-> << >>, line |-> << >>, cells |-> cells]

\* df_copy[column].dtype == 'object': a column that holds a text, or booleans
\* next to empty cells, or no cell at all
IsObject(rows) ==
    \/ rows = << >>
    \/ \E i \in 1..Len(rows) : rows[i].v.t = "str"
    \/ /\ \E i \in 1..Len(rows) : rows[i].v.t = "bool"
       /\ \E i \in 1..Len(rows) : rows[i].v.t # "bool"
\* lines 340-345: the cell as a boolean
Exercise(v, object) ==
    IF isna(v) THEN FALSE
    ELSE IF object THEN Lower(py_str(v)) \in {"true", "1", "yes"}
    ELSE py_bool(v)
\* line 348: dict(zip(dates, exercise)): the last row of a date wins
exercise_dict(t) ==
    LET rows == DropNaT(t.rows)
        days == {rows[i].date.n : i \in 1..Len(rows)}
        Last(d) == CHOOSE i \in 1..Len(rows) :
                      /\ rows[i].date.n = d
                      /\ \A j \in 1..Len(rows) : rows[j].date.n = d => j <= i
    IN  [d \in days |-> Exercise(rows[Last(d)].v, IsObject(t.rows))]
\* exercise_dict.get(date_obj, False)
DictGet(dict, d) == IF d \in DOMAIN dict THEN dict[d] ELSE FALSE

\* Mutant of FirstColumn: the weeks start on Sunday.
FirstColumn_Sunday(year, month) == (weekday(ymd2ord(year, month, 1)) + 1) % 7

\* calendar.monthcalendar: the column of day 1, weeks starting on Monday
FirstColumn(year, month) == weekday(ymd2ord(year, month, 1))

\* calendar.monthcalendar(year, month), its weeks one after the other: the
\* days of the month, with zeros before day 1 and after the last day to
\* fill the weeks
monthcalendar(year, month) ==
    LET lead == FirstColumn(year, month)
        n    == days_in_month(year, month)
        size == ((lead + n + 6) \div 7) * 7
    IN  [i \in 1..size |-> IF i <= lead \/ i > lead + n THEN 0 ELSE i - lead]

\* plot_stats._create_month_calendar
create_month_calendar(dict, year0, month0, now) ==
    LET year  == IF year0 = 0 THEN ord2ymd(now).year ELSE year0
        month == IF month0 = 0 THEN ord2ymd(now).month ELSE month0
        month_cal == monthcalendar(year, month)
        slots == [i \in 1..Len(month_cal) |->
                     [week_num |-> (i - 1) \div 7, day_num |-> (i - 1) % 7,
                      day |-> month_cal[i]]]
        shown == SelectSeq(slots, LAMBDA c : c.day # 0)
    IN  CalendarFigure(
            [i \in 1..Len(shown) |->
                LET date_obj == ymd2ord(year, month, shown[i].day)
                IN  [x |-> shown[i].day_num, y |-> -shown[i].week_num,
                     date |-> date_obj, active |-> DictGet(dict, date_obj)]])

\* plot_stats._create_week_calendar
create_week_calendar(dict, week_start0, now) ==
    LET week_start_date == IF week_start0 = 0 THEN now - weekday(now)
                           ELSE week_start0
    IN  CalendarFigure(
            [i \in 1..7 |->
                LET date_obj == week_start_date + (i - 1)
                IN  [x |-> i - 1, y |-> 0,
                     date |-> date_obj, active |-> DictGet(dict, date_obj)]])

\* date.isocalendar()[1]: the week of the year of the date's Thursday
iso_week(d) ==
    LET thursday == d - weekday(d) + 3
    IN  (thursday - ymd2ord(ord2ymd(thursday).year, 1, 1)) \div 7 + 1

\* Mutant of create_year_calendar: the loop runs 365 days in every year.
create_year_calendar_365(dict, year0, now) ==
    LET year == IF year0 = 0 THEN ord2ymd(now).year ELSE year0
        start_date == ymd2ord(year, 1, 1)
    IN  CalendarFigure(
            [i \in 1..365 |->
                LET current == start_date + (i - 1)
                IN  [x |-> iso_week(current), y |-> weekday(current),
                     date |-> current, active |-> DictGet(dict, current)]])

\* plot_stats._create_year_calendar
create_year_calendar(dict, year0, now) ==
    LET year == IF year0 = 0 THEN ord2ymd(now).year ELSE year0
        start_date == ymd2ord(year, 1, 1)
        end_date   == ymd2ord(year, 12, 31)
    IN  CalendarFigure(
            [i \in 1..(end_date - start_date + 1) |->
                LET current == start_date + (i - 1)
                IN  [x |-> iso_week(current), y |-> weekday(current),
                     date |-> current, active |-> DictGet(dict, current)]])

\* plot_stats.plot_exercise_calendar; year, month and week_start are 0 for
\* None
plot_exercise_calendar(t, column, period, year, month, week_start, now) ==
    IF ~t.date_col THEN Raised("KeyError")
    ELSE IF column \notin t.cols THEN Raised("KeyError")
    ELSE IF period = "month"
    THEN create_month_calendar(exercise_dict(t), year, month, now)
    ELSE IF period = "week"
    THEN create_week_calendar(exercise_dict(t), week_start, now)
    ELSE create_year_calendar(exercise_dict(t), year, now)

---------------------------------------------------------------------------
(* The chart functions called with tables and requests of bounded sets;    *)
(* the wall-clock date is Today0.                                          *)

\* the rows of a table at most
MaxRows == 3
\* the metric column of the tables, and a column they do not have
MetricColumn == "mood"
OtherColumn == "sleep"

\* rows on both sides of each window start, in the future and without a
\* parseable date, and rows of the last days with and without a number
EdgeRows ==
    {[date |-> PyDate(Today0 + k), v |-> PyInt(10)] :
        k \in {-366, -365, -31, -30, -8, -7, 1}}
    \cup {[date |-> PyStr("abc"), v |-> PyInt(10)]}
LastRows ==
    {[date |-> PyDate(Today0 + k), v |-> x] :
        k \in {-4, -2, 0}, x \in {PyNaN, PyInt(10), PyInt(20)}}
    \cup {[date |-> PyDate(Today0 - 2), v |-> PyStr("abc")]}
RowChoices == EdgeRows \cup LastRows

\* the tables the record store can hold: at most one row per date, in any
\* order
RowLists ==
    UNION {{rs \in [1..n -> RowChoices] :
              \A i, j \in 1..n : i # j => rs[i].date # rs[j].date} :
           n \in 0..MaxRows}
SeriesTables ==
    {[date_col |-> TRUE, cols |-> {MetricColumn}, rows |-> rs] : rs \in RowLists}
    \cup {NoTable,
          [date_col |-> FALSE, cols |-> {MetricColumn},
           rows |-> <<[date |-> PyNaN, v |-> PyInt(10)]>>]}
SeriesRequests ==
    {[fn |-> "plot_time_series", column |-> c, period |-> p,
      year |-> 0, month |-> 0, week_start |-> 0] :
        c \in {MetricColumn, OtherColumn}, p \in Periods}

\* the rows of a calendar table at most
MaxMarks == 2
\* the years of the month views: 2021 (February fills four weeks), 2024 (a
\* leap year) and 2025
CalendarYears == {2021, 2024, 2025}
\* Mondays the week view is anchored at: of today, of the week before and
\* of the week of 2024-02-29
WeekStarts == {Today0, Today0 - 7, 738942}
\* the years of the year views: 2020 (a leap year that ends in week 53),
\* 2021 (starts in week 53 of the year before), 2024 (a leap year whose
\* last two days are in week 1 of the year after) and 2025
YearViews == {2020, 2021, 2024, 2025}
\* the calls of render_stats_tab (lines 563-590); 0 is an argument left None
CalendarRequests ==
    {[fn |-> "plot_exercise_calendar", column |-> CalendarColumn,
      period |-> "month", year |-> y, month |-> m, week_start |-> 0] :
        y \in CalendarYears, m \in 1..12}
    \cup {[fn |-> "plot_exercise_calendar", column |-> CalendarColumn,
           period |-> "week", year |-> 0, month |-> 0, week_start |-> w] :
             w \in WeekStarts \cup {0}}
    \cup {[fn |-> "plot_exercise_calendar", column |-> CalendarColumn,
           period |-> "year", year |-> y, month |-> 0, week_start |-> 0] :
             y \in YearViews}
\* the first day a request shows
FirstShown(r) ==
    IF r.period = "month" THEN ymd2ord(r.year, r.month, 1)
    ELSE IF r.period = "year" THEN ymd2ord(r.year, 1, 1)
    ELSE IF r.week_start = 0 THEN Today0 - weekday(Today0) ELSE r.week_start
\* the cells of the rows: booleans, an empty cell and a text for the month
\* and week views, booleans for the year view
MarkValues(r) ==
    IF r.period = "year" THEN {PyBool(TRUE), PyBool(FALSE)}
    ELSE {PyBool(TRUE), PyBool(FALSE), PyNaN, PyStr("yes")}
\* rows of the first day shown, the day before it and the day 6 days after
\* it, and a row without a date that parses
MarkRows(r) ==
    {[date |-> PyDate(FirstShown(r) + k), v |-> x] :
        k \in {-1, 0, 6}, x \in MarkValues(r)}
    \cup {[date |-> PyStr("abc"), v |-> PyBool(TRUE)]}
CalendarTables(r) ==
    {[date_col |-> TRUE, cols |-> {CalendarColumn}, rows |-> rs] :
        rs \in UNION {{q \in [1..n -> MarkRows(r)] :
                          \A i, j \in 1..n : i # j => q[i].date # q[j].date} :
                      n \in 0..MaxMarks}}
    \cup {NoTable,
          [date_col |-> TRUE, cols |-> {MetricColumn},
           rows |-> <<[date |-> PyDate(FirstShown(r)), v |-> PyNaN]>>]}

ChartInit ==
    /\ \/ tbl \in SeriesTables /\ req \in SeriesRequests
       \/ \E r \in CalendarRequests : req = r /\ tbl \in CalendarTables(r)
    /\ fig = NoFigure
    /\ entry = EmptyDict
    /\ score = NoScore

\* the call of plot_time_series (main.py line 475)
SeriesCall ==
    /\ req.fn = "plot_time_series" /\ fig = NoFigure
    /\ fig' = plot_time_series(tbl, req.column, req.period, today)
    /\ UNCHANGED <<tbl, req, entry, score,
                   storeVars, appVars, raceVars, castVars>>

\* a call of plot_exercise_calendar (main.py lines 563-590)
CalendarCall ==
    /\ req.fn = "plot_exercise_calendar" /\ fig = NoFigure
    /\ fig' = plot_exercise_calendar(tbl, req.column, req.period, req.year,
                                     req.month, req.week_start, today)
    /\ UNCHANGED <<tbl, req, entry, score,
                   storeVars, appVars, raceVars, castVars>>

ChartNext == SeriesCall \/ CalendarCall

ChartSpecInit == ChartInit /\ StoreIdle /\ AppIdle /\ RaceIdle /\ CastIdle

ChartSpec == ChartSpecInit /\ [][ChartNext]_vars

---------------------------------------------------------------------------
(* Claims about plot_time_series.                                          *)

Called == fig # NoFigure
\* the dates of the rows of the table that parse
ParsedDates(t) ==
    {t.rows[i].date.n : i \in {j \in 1..Len(t.rows) : t.rows[j].date.t = "date"}}
\* the dates the period keeps: on or after today minus 7, 30 or 365 days
StatedWindow(t, period, now) ==
    LET days == IF period = "week" THEN 7
                ELSE IF period = "month" THEN 30 ELSE 365
    IN  {d \in ParsedDates(t) : d >= now - days}

\* C15: plot_time_series does not raise on absent data: an empty table and
\* a table without the requested column give the annotation "No data
\* available", a table of which no row survives the period filter gives
\* "No data for the last <period>", and neither figure has a trace, while a
\* chart with data has no annotation and at least one measured point.
C15_NoDataResult ==
    (Called /\ req.fn = "plot_time_series" /\ (tbl.date_col \/ df_empty(tbl))) =>
        /\ fig.kind \in {"annotation", "series"}
        /\ (tbl.rows = << >> \/ req.column \notin tbl.cols) =>
              fig = Annotated("No data available")
        /\ (tbl.rows # << >> /\ req.column \in tbl.cols
              /\ StatedWindow(tbl, req.period, today) = {}) =>
              fig = Annotated("No data for the last " \o req.period)
        /\ fig.kind = "series" =>
              /\ fig.label = "" /\ fig.measured # << >>
              /\ StatedWindow(tbl, req.period, today) # {}

\* a table whose rows are all older than a week, or without a date that
\* parses, was charted for the week and gave the annotation of the period
C15_Witness ==
    /\ Called /\ req.fn = "plot_time_series" /\ req.period = "week"
    /\ req.column \in tbl.cols
    /\ Len(tbl.rows) = MaxRows
    /\ \E i \in 1..Len(tbl.rows) : tbl.rows[i].date.t # "date"
    /\ fig = Annotated("No data for the last week")

\* the dates of the measured points, in the order of the trace
MeasuredDates == [i \in 1..Len(fig.measured) |-> fig.measured[i].date]

\* C17: the rows plot_time_series keeps are exactly the rows whose date
\* parses and is on or after today minus 7 days (week), 30 days (month) or
\* 365 days (year), each once, sorted by date ascending.
C17_RollingWindow ==
    (Called /\ req.fn = "plot_time_series" /\ tbl.date_col
        /\ req.column \in tbl.cols) =>
        /\ {MeasuredDates[i] : i \in 1..Len(MeasuredDates)}
              = StatedWindow(tbl, req.period, today)
        /\ Len(MeasuredDates) = Cardinality(StatedWindow(tbl, req.period, today))
        /\ \A i, j \in 1..Len(MeasuredDates) :
              i < j => MeasuredDates[i] < MeasuredDates[j]

\* a table given newest row first, with a row without a date that parses,
\* was charted for the month: the row of 30 days ago is kept and comes
\* first, though it is not of today's calendar month
C17_Witness ==
    /\ Called /\ req.fn = "plot_time_series" /\ req.period = "month"
    /\ Len(tbl.rows) = 3
    /\ tbl.rows[1].date = PyDate(today)
    /\ tbl.rows[2].date.t # "date"
    /\ tbl.rows[3].date = PyDate(today - 30)
    /\ MeasuredDates = <<today - 30, today>>
    /\ ord2ymd(today - 30).month # FirstDayOf(today).month

\* the samples of the line that hold a number
Observed == {i \in 1..Len(fig.line) :
                \E j \in 1..Len(fig.measured) :
                    /\ fig.measured[j].date = fig.line[i].date
                    /\ ~fig.measured[j].y.nan}
\* a = b + (c - b) * p / q, for fractions a, b, c
OnTheLine(a, b, c, p, q) ==
    a.num * b.den * c.den * q
        = a.den * (b.num * c.den * q + (c.num * b.den - b.num * c.den) * p)

\* C18: the line of plot_time_series has one sample per calendar day from
\* the earliest to the latest kept row; a day with an observed number keeps
\* it, a day without one between two observed numbers lies on the straight
\* line through the nearest of them on either side (10 on day 1 and 20 on
\* day 5 give 15 on day 3), and a day before the first or after the last
\* observed number gets no value.
C18_InterpolateInterior ==
    (Called /\ fig.kind = "series") =>
        LET first == fig.measured[1].date
            last  == fig.measured[Len(fig.measured)].date
        IN  /\ Len(fig.line) = last - first + 1
            /\ \A i \in 1..Len(fig.line) :
                 /\ fig.line[i].date = first + i - 1
                 /\ i \in Observed =>
                      \E j \in 1..Len(fig.measured) :
                          /\ fig.measured[j].date = fig.line[i].date
                          /\ fig.line[i].y = fig.measured[j].y
                 /\ i \notin Observed =>
                      LET before == {j \in Observed : j < i}
                          after  == {k \in Observed : k > i}
                      IN  IF before = {} \/ after = {} THEN fig.line[i].y.nan
                          ELSE LET j == CHOOSE x \in before : \A z \in before : z <= x
                                   k == CHOOSE x \in after : \A z \in after : x <= z
                               IN  /\ ~fig.line[i].y.nan
                                   /\ OnTheLine(fig.line[i].y, fig.line[j].y,
                                                fig.line[k].y, i - j, k - j)
            /\ (/\ Len(fig.measured) = 2 /\ last = first + 4
                /\ fig.measured[1].y = Frac(10, 1)
                /\ fig.measured[2].y = Frac(20, 1)) => fig.line[3].y = Frac(15, 1)

---------------------------------------------------------------------------
(* Claims about the calendar views.                                        *)

\* C16: plot_exercise_calendar, for period week, month and year, gives an
\* explicit "no data" result and does not raise when the table is empty or
\* does not have the requested column.
C16_CalendarNoData ==
    (Called /\ req.fn = "plot_exercise_calendar"
        /\ (df_empty(tbl) \/ req.column \notin tbl.cols)) =>
        fig.kind = "annotation"

\* the days of the month, as ordinals: from its first day to the day
\* before the first day of the month after it
MonthDays(year, month) ==
    LET after == IF month = 12 THEN ymd2ord(year + 1, 1, 1)
                 ELSE ymd2ord(year, month + 1, 1)
    IN  ymd2ord(year, month, 1) .. (after - 1)

\* C19: the month view of (year, month) has exactly one cell per day of the
\* month and no other cell; the cell of a day is in the column of the
\* date's weekday (0 = Monday .. 6 = Sunday) and in the row of its week of
\* the month in the Monday-start layout, no two cells share a position, and
\* its activity flag is the map's value for the date, false when the map
\* does not have the date.
C19_MonthCells ==
    (Called /\ req.fn = "plot_exercise_calendar" /\ req.period = "month"
        /\ fig.kind = "calendar") =>
        LET cells == fig.cells
            first == ymd2ord(req.year, req.month, 1)
            map   == exercise_dict(tbl)
        IN  /\ Len(cells) = Cardinality(MonthDays(req.year, req.month))
            /\ {cells[i].date : i \in 1..Len(cells)}
                  = MonthDays(req.year, req.month)
            /\ \A i \in 1..Len(cells) :
                 /\ cells[i].x = weekday(cells[i].date)
                 /\ -cells[i].y
                      = (cells[i].date - (first - weekday(first))) \div 7
                 /\ cells[i].active
                      = (cells[i].date \in DOMAIN map /\ map[cells[i].date])
            /\ \A i, j \in 1..Len(cells) :
                 i # j => <<cells[i].x, cells[i].y>> # <<cells[j].x, cells[j].y>>

\* February 2024 was drawn from a table that marks its first day and the
\* day before it: 29 cells, the first in column 3 (Thursday) and active,
\* the last in the fifth week
C19_Witness ==
    /\ Called /\ req.fn = "plot_exercise_calendar" /\ req.period = "month"
    /\ req.year = 2024 /\ req.month = 2
    /\ Len(tbl.rows) = 2
    /\ tbl.rows[1] = [date |-> PyDate(ymd2ord(2024, 2, 1)), v |-> PyBool(TRUE)]
    /\ tbl.rows[2] = [date |-> PyDate(ymd2ord(2024, 1, 31)), v |-> PyBool(TRUE)]
    /\ Len(fig.cells) = 29
    /\ fig.cells[1].x = 3 /\ fig.cells[1].active
    /\ ~fig.cells[2].active
    /\ fig.cells[29].y = -4

\* lines 435-441 and 576-581: the table render_stats_tab hands to the chart
\* functions, with the cells of the chart's column
ChartTable(file, column) ==
    LET df == ensure_date_column(load_data(file))
    IN  [date_col |-> df.datecol, cols |-> df.cols,
         rows |-> [i \in 1..Len(df.rows) |->
                      [date |-> df.rows[i].date, v |-> df.rows[i].f[column]]]]
\* lines 575-581: the figure of the week view for the session's week anchor
WeekFigure ==
    plot_exercise_calendar(ChartTable(disk, CalendarColumn), CalendarColumn,
                           "week", 0, 0, AnchorWeek(ss), today)

\* C20: once the calendar keys are set, whatever period switches and Prev,
\* Next and Cur clicks follow and whatever day it is, the week anchor is a
\* Monday, and the week view has exactly 7 cells on consecutive dates, the
\* cell in column i (0..6) being the date whose weekday is i.
C20_WeekAnchorMonday ==
    Has(ss, "calendar_week_start") =>
        /\ weekday(AnchorWeek(ss)) = 0
        /\ WeekFigure.kind = "calendar"
        /\ Len(WeekFigure.cells) = 7
        /\ \A i \in 1..7 :
             /\ WeekFigure.cells[i].x = i - 1
             /\ WeekFigure.cells[i].date = AnchorWeek(ss) + (i - 1)
             /\ weekday(WeekFigure.cells[i].date) = i - 1

\* on a Sunday, in week period, the calendar was stepped back one week: the
\* anchor is the Monday 13 days before today and the seventh cell of the
\* week view is the Sunday before today
C20_Witness ==
    /\ Has(ss, "calendar_week_start")
    /\ sel_period = "week"
    /\ weekday(today) = 6
    /\ AnchorWeek(ss) = today - 13
    /\ WeekFigure.cells[7].date = today - 7
    /\ WeekFigure.cells[7].x = 6

---------------------------------------------------------------------------
(* Claims about the year view.                                             *)

YearCall ==
    /\ Called /\ req.fn = "plot_exercise_calendar" /\ req.period = "year"
    /\ fig.kind = "calendar"

\* C21: the year view of a year has exactly one cell per calendar date of
\* the year, in date order from 1 January to 31 December: 366 cells in a
\* leap year and 365 otherwise; the cell of a date is in the column of the
\* date's ISO week number and in the row of its weekday (0 = Monday).
C21_YearCells ==
    YearCall =>
        LET cells == fig.cells
            n == IF is_leap(req.year) THEN 366 ELSE 365
        IN  /\ Len(cells) = n
            /\ cells[1].date = ymd2ord(req.year, 1, 1)
            /\ cells[n].date = ymd2ord(req.year + 1, 1, 1) - 1
            /\ \A i \in 1..(n - 1) : cells[i + 1].date = cells[i].date + 1
            /\ \A i \in 1..n :
                 /\ ord2ymd(cells[i].date).year = req.year
                 /\ cells[i].x = iso_week(cells[i].date)
                 /\ cells[i].y = weekday(cells[i].date)

\* the year view of 2024 was drawn: 366 cells, the 60th for 29 February (a
\* Thursday of week 9) and the last for 31 December (a Tuesday of week 1)
C21_Witness ==
    /\ YearCall /\ req.year = 2024
    /\ Len(fig.cells) = 366
    /\ fig.cells[60].date = ymd2ord(2024, 2, 29)
    /\ fig.cells[60].x = 9 /\ fig.cells[60].y = 3
    /\ fig.cells[366].date = ymd2ord(2024, 12, 31)
    /\ fig.cells[366].x = 1 /\ fig.cells[366].y = 1

\* C22: in the year view no two different dates are at the same (ISO week
\* number, weekday) position: the cells take as many positions as they have
\* dates.
C22_YearCellsApart ==
    YearCall =>
        Cardinality({<<fig.cells[i].x, fig.cells[i].y>> : i \in 1..Len(fig.cells)})
            = Cardinality({fig.cells[i].date : i \in 1..Len(fig.cells)})

---------------------------------------------------------------------------
(* The one-record-per-date invariant under concurrent writers.             *)

\* the table load_data reads from the file, when it can read one
OnDisk == LoadText(disk)
\* no date has two records
UniqueRows(df) ==
    \A i, j \in 1..Len(df.rows) :
        (df.rows[i].date.t = "date" /\ df.rows[i].date = df.rows[j].date)
            => i = j

\* C23: whatever way the steps of the writers' upsert_for_date calls
\* interleave, for the same date or for different dates, on a file with at
\* most one record per date, the table on disk holds at most one record per
\* date whenever no save_data is running and the file can be read.
C23_RaceOneRecordPerDate ==
    (NoneWriting /\ ~ReadFails(disk)) => UniqueRows(OnDisk)

\* every frame a writer saves has at most one record per date when the
\* table it loaded has, and so has the file while every save_data has run
\* alone
OneRecordPerDateApart ==
    /\ (SavesApart /\ NoneWriting) => (~ReadFails(disk) /\ UniqueRows(OnDisk))
    /\ \A w \in Writers :
         (pc[w] \in {"mutated", "writing", "done"} /\ UniqueRows(snap[w].loaded))
            => UniqueRows(snap[w].df)

\* a frame of the record store: a date in every record, booleans or NaN
\* under gym, notes or NaN under notes
StoreFrame(df) ==
    \A i \in 1..Len(df.rows) :
        /\ df.rows[i].date.t = "date"
        /\ df.rows[i].f["gym"].t \in {"bool", "nan"}
        /\ df.rows[i].f["notes"] \in {PyNaN, PyStr("ok"), PyStr("late")}
\* the text of the model is the text of the record store: a file a save
\* wrote alone from such a frame reads back as the frame, cell by cell as
\* read_csv_cell reads what to_csv_cell wrote
ReadBack(df) ==
    [datecol |-> TRUE,
     cols |-> df.cols,
     rows |-> [i \in 1..Len(df.rows) |->
                 [date |-> df.rows[i].date,
                  timestamp |-> df.rows[i].timestamp,
                  f |-> [k \in Fields |->
                           read_csv_cell(to_csv_cell(df.rows[i].f[k]))]]]]
TextRoundTrip ==
    \A w \in Writers :
        (pc[w] = "mutated" /\ StoreFrame(snap[w].df)) =>
            LET file == Overlay(EmptyFile, SavedText(w))
            IN  ~ReadFails(file) /\ LoadText(file) = ReadBack(snap[w].df)

\* a text of digits, with or without a sign: what read_csv takes for a
\* number
IsNumberText(t) ==
    /\ t # << >>
    /\ \A j \in 1..Len(t) : IsDigit(t[j]) \/ (j = 1 /\ t[1] = "-" /\ Len(t) > 1)
\* no column of the file is a column of numbers: a text of digits is the
\* end of a date cut by a shorter save, it stands first in its line, and
\* the first record of the file has a whole date there
NoNumberColumn ==
    LET ls == NonBlank(disk.lines)
        Texts(p) == {ls[i][p] : i \in {j \in 2..Len(ls) : p <= Len(ls[j])}}
                       \ {<< >>}
    IN  \A p \in 1..(IF ls = << >> THEN 0 ELSE Len(ls[1])) :
          Texts(p) = {} \/ \E t \in Texts(p) : ~IsNumberText(t)

\* the file starts with what one save wrote: a header of date, timestamp
\* and field columns and a first row with as many cells, so read_csv takes
\* no column for an index
WholeStart ==
    (disk.exists /\ disk.lines # << >>) =>
        /\ Len(disk.lines) >= 2
        /\ disk.lines[1][1] = Spelling["date"]
        /\ disk.lines[1][2] = Spelling["timestamp"]
        /\ \A p \in 3..Len(disk.lines[1]) :
             \E k \in Fields : disk.lines[1][p] = Spelling[k]
        /\ Len(disk.lines[2]) = Len(disk.lines[1])
        /\ IsDateText(disk.lines[2][1])

\* a timestamp cell that is no date holds a letter, so to_datetime raises
\* on it whatever format it infers
TimestampCellsDecided ==
    LET ls == NonBlank(disk.lines)
    IN  \A i \in 2..Len(ls) :
          (/\ Len(ls[i]) >= 2
           /\ ls[i][2] # << >>
           /\ ~IsDateText(ls[i][2]))
             => \E j \in 1..Len(ls[i][2]) :
                   ~IsDigit(ls[i][2][j]) /\ ls[i][2][j] # "-"

===========================================================================
